---------------------------- MODULE Spec2Model ----------------------------
(* Job-queue consumer (worker/consumer.py), job router                     *)
(* (worker/unified_processor.py, worker/processor.py,                      *)
(* worker/fetch_processor.py), message-history store                       *)
(* (src/repositories/sqs_message_history.py) and the item-level flows of   *)
(* src/services/keyword.py, as one state machine.                          *)
EXTENDS Integers, Sequences, FiniteSets, TLC

(***************************************************************************)
(* Bounds of the model.                                                    *)
(***************************************************************************)
NumKw == 2
MaxReceive == 4
NumSerp == 1
MaxExtFail == 1

(***************************************************************************)
(* Program constants.                                                      *)
(***************************************************************************)
MAX_RETRIES == 3
WORKER_MAX_MESSAGES == 1
LARGE_JOB_KEYWORDS == 25

(* the model follows one message through the queue; every table and the    *)
(* queue are indexed by message id                                         *)
Msgs == {1}
Keywords == 1 .. NumKw
NoMsg == 0
NoJob == 0

(* MessageStatus, src/models/sqs_message_history.py *)
MessageStatus ==
    {"queued", "processing", "completed", "failed", "dlq", "cancelled", "deleted"}

(* StatusConst, src/utils/constants.py *)
StatusConst ==
    {"pending", "processing", "failed", "success", "partial", "cancelled", "waiting"}

(* SQSMessageType: the job types the router dispatches, and the one it does not *)
RoutedTypes == {"fetch", "partial_rank", "full_rank"}

(***************************************************************************)
(* Message bodies.  kind "object" is a JSON object; "malformed" is not     *)
(* JSON; "nonobject" is JSON that is not an object.  kwsNull: keyword_ids  *)
(* is null.  tokenOk: token_info builds a TokenInfo.                       *)
(***************************************************************************)
KwLists == {<<1>>, <<1, 2>>}

MkBody(kind, type, kws, kwsNull, tokenOk) ==
    [kind |-> kind, type |-> type, kws |-> kws, kwsNull |-> kwsNull, tokenOk |-> tokenOk]

NoBody == MkBody("none", "unknown", <<>>, FALSE, FALSE)

(* bodies built by SQSProducerService.send_job from a UnifiedJobMessage *)
ProducerBodies ==
    {MkBody("object", t, ks, FALSE, TRUE) : t \in RoutedTypes, ks \in KwLists}

(* bodies put on the queue by anything else *)
ForeignBodies ==
    { MkBody("malformed", "unknown", <<>>, FALSE, FALSE),
      MkBody("nonobject", "unknown", <<>>, FALSE, FALSE),
      MkBody("object", "fetch_and_rank", <<1>>, FALSE, TRUE),
      MkBody("object", "fetch", <<>>, TRUE, TRUE),
      MkBody("object", "full_rank", <<1, 2>>, FALSE, FALSE) }

VARIABLES
    qstate,     \* [Msgs -> "unsent" | "visible" | "inflight" | "deleted"]
    rc,         \* [Msgs -> Nat]: ApproximateReceiveCount
    body,       \* [Msgs -> body]
    hist,       \* [Msgs -> message-history row, or NoRec]
    kw,         \* [Keywords -> the three phase statuses]
    serp,       \* [Keywords -> sequence of sub-result statuses]
    running,    \* SQSConsumer.running
    pc,         \* position of the consumer
    batch,      \* messages of the current receive not yet looked at
    cur,        \* message inside _process_message, or NoMsg
    curRc,      \* ApproximateReceiveCount carried by that delivery
    todo,       \* keywords_to_process not yet started
    result,     \* the router's result
    ext,        \* VisibilityExtender of cur: "none" | "running" | "stopped"
    runs,       \* [Msgs -> Nat]: number of router invocations
    path,       \* how the last _process_message went
    last,       \* the message of the last _process_message that returned
    epc,        \* extender thread: "none" (no live thread) | "wait" (in its loop)
    extFail,    \* extension calls of the running extender that raised
    rows,       \* the history table as a sequence of committed rows
    wpc,        \* [Workers -> position inside a create_or_update call]
    wargs,      \* [Workers -> the arguments of that call]
    wpath,      \* [Workers -> how that call went]
    sub,        \* sub-result the item of Head(todo) looks at next; 0 between items
    pre,        \* kw and serp as they were when the job started
    cancelAt,   \* the item mid-processing when this job's cancel was accepted, or 0
    driver,     \* SeleniumService.reset_driver calls so far
    zombie,     \* <<keyword, position>> of the workers left running on timeout
    trail,      \* <<keyword, position>> of the sub-results attempted, in order
    call,       \* a call of a pure function: its arguments and its return value
    consecutive_errors,  \* the poll loop's count of failed receive calls
    timer       \* seconds: the message's invisibility left, the extender's sleep

vars == <<qstate, rc, body, hist, kw, serp, running, pc, batch, cur, curRc,
          todo, result, ext, runs, path, last, epc, extFail,
          rows, wpc, wargs, wpath, sub, pre, cancelAt, driver, zombie, trail, call,
          consecutive_errors, timer>>

(* two callers of create_or_update: the consumer and the monitor, or two   *)
(* workers                                                                 *)
Workers == {1, 2}

NoArgs == [m |-> NoMsg, status |-> "queued", sqs_receive_count |-> 0]

NoPre == [kw |-> <<>>, serp |-> <<>>]

NoRec == [exists |-> FALSE, status |-> "queued", job_id |-> NoJob,
          message_type |-> "none", error_code |-> "none",
          error_details |-> "none", receive_count |-> 0]

NoResult == [success |-> FALSE, should_delete |-> FALSE, reason |-> "none"]

MkResult(s, d, r) == [success |-> s, should_delete |-> d, reason |-> r]


(***************************************************************************)
(* Message-history store: SQSMessageHistoryRepository.                     *)
(***************************************************************************)
NoCount == -1

(* MessageType(message_type): the enum value, or none when not a member *)
MessageTypeEnum(t) ==
    IF t \in {"fetch", "partial_rank", "full_rank", "fetch_and_rank"} THEN t ELSE "none"

(* get_by_job_id: the message whose row carries the job id, or NoMsg *)
get_by_job_id(h, job) ==
    LET S == {m \in Msgs : h[m].exists /\ h[m].job_id = job}
    IN  IF S = {} THEN NoMsg ELSE CHOOSE m \in S : \A n \in S : m <= n

(* the receive counter every branch of create_or_update writes *)
NextReceiveCount(ex, sqs_receive_count) ==
    IF sqs_receive_count # 0 THEN sqs_receive_count ELSE ex.receive_count + 1

(* a guard that also keeps FAILED from going back to QUEUED *)
StatusGuardedFailedToo(existing_status, status) ==
    status = "queued" /\ existing_status \in {"processing", "completed", "failed"}

(* an upsert without the status guard *)
StatusUnguarded(existing_status, status) == FALSE

(* the smart status guard: an incoming QUEUED does not overwrite these *)
StatusGuarded(existing_status, status) ==
    status = "queued" /\ existing_status \in {"processing", "completed"}

(* create_or_update; sqs_receive_count = 0 and job_id = NoJob stand for    *)
(* None, kw_receive_count = NoCount for no receive_count keyword argument  *)
create_or_update(h, m, status, sqs_receive_count, job_id, message_type, kw_receive_count) ==
    LET ex == h[m] IN
    IF ex.exists
    THEN IF StatusGuarded(ex.status, status)
         THEN [h EXCEPT ![m].receive_count = NextReceiveCount(ex, sqs_receive_count)]
         ELSE [h EXCEPT ![m] =
                 [ex EXCEPT
                    !.job_id = IF job_id # NoJob THEN job_id ELSE ex.job_id,
                    !.message_type =
                        IF message_type # "none" THEN message_type ELSE ex.message_type,
                    !.status = status,
                    !.receive_count =
                        IF kw_receive_count # NoCount
                        THEN kw_receive_count
                        ELSE NextReceiveCount(ex, sqs_receive_count)]]
    ELSE [h EXCEPT ![m] =
            [exists |-> TRUE, status |-> status, job_id |-> job_id,
             message_type |-> message_type, error_code |-> "none",
             error_details |-> "none",
             receive_count |->
                 IF kw_receive_count # NoCount THEN kw_receive_count ELSE 0]]

(* update_status: no row, no write; error fields only for FAILED and DLQ *)
update_status(h, m, status, error_details, error_code) ==
    IF h[m].exists
    THEN [h EXCEPT ![m] =
            [@ EXCEPT
               !.status = status,
               !.error_details =
                   IF status \in {"failed", "dlq"} THEN error_details ELSE @,
               !.error_code =
                   IF status \in {"failed", "dlq"} THEN error_code ELSE @]]
    ELSE h

(* the test the docstring of cancel_by_job_id describes *)
CancellableQueuedOnly(status) == status = "queued"

(* the status test of cancel_by_job_id and cancel_by_sqs_message_id *)
Cancellable(status) == status \in {"queued", "processing"}

(* the two cancel methods once the row e is looked up (NoMsg: not found):  *)
(* whether the row is returned rather than None                            *)
cancel_accepted(h, e) == e # NoMsg /\ Cancellable(h[e].status)

(* ... and the table afterwards *)
cancel_record(h, e) ==
    IF cancel_accepted(h, e) THEN [h EXCEPT ![e].status = "cancelled"] ELSE h

(* get_by_message_id: the message's row, or NoMsg *)
get_by_message_id(h, m) == IF h[m].exists THEN m ELSE NoMsg

(* cancel_by_job_id *)
cancel_by_job_id(h, job) == cancel_record(h, get_by_job_id(h, job))

(* cancel_by_sqs_message_id *)
cancel_by_sqs_message_id(h, m) == cancel_record(h, get_by_message_id(h, m))

(* is_job_cancelled, src/utils/cancellation.py *)
is_job_cancelled(h, job) ==
    LET e == get_by_job_id(h, job)
    IN  e # NoMsg /\ h[e].status = "cancelled"

(***************************************************************************)
(* Target items and sub-results.                                           *)
(***************************************************************************)
StatusField(message_type) ==
    CASE message_type = "fetch" -> "fetch_status"
      [] message_type = "partial_rank" -> "partial_rank_status"
      [] message_type = "full_rank" -> "rank_status"
      [] OTHER -> "none"

SeqToSet(s) == {s[i] : i \in 1 .. Len(s)}

(* KeywordService.set_keywords_status *)
set_keywords_status(k, ids, field, value) ==
    [x \in Keywords |-> IF x \in SeqToSet(ids) THEN [k[x] EXCEPT ![field] = value] ELSE k[x]]

(* SerpResultRepository.update_processing_to_failed *)
update_processing_to_failed(s, ids) ==
    [x \in Keywords |->
        IF x \in SeqToSet(ids)
        THEN [i \in 1 .. Len(s[x]) |-> IF s[x][i] = "processing" THEN "failed" ELSE s[x][i]]
        ELSE s[x]]

(* a _fail_keywords that writes nothing *)
fail_keywords_skipped(k, ids, message_type) == k

(* SQSConsumer._fail_keywords: the keyword statuses afterwards *)
fail_keywords_kw(k, ids, message_type) ==
    IF ids = <<>> \/ StatusField(message_type) = "none"
    THEN k
    ELSE set_keywords_status(k, ids, StatusField(message_type), "failed")

(* SQSConsumer._fail_keywords: the sub-result statuses afterwards *)
fail_keywords_serp(s, ids, message_type) ==
    IF ids = <<>> \/ StatusField(message_type) = "none"
    THEN s
    ELSE update_processing_to_failed(s, ids)

(* SQSConsumer._update_message_history *)
update_message_history(h, m, status, error_details, error_code, sqs_receive_count, job_id, message_type) ==
    IF sqs_receive_count # 0
    THEN create_or_update(h, m, status, sqs_receive_count, job_id,
                          MessageTypeEnum(message_type), NoCount)
    ELSE update_status(h, m, status, error_details, error_code)

(***************************************************************************)
(* Initial state: empty queue, empty history table, consumer constructed.  *)
(* Each keyword is either as created (all phases pending, no sub-results)  *)
(* or as an earlier fetch left it (fetch done, its sub-results pending);  *)
(* the fetched keywords are the first ones of the table.                   *)
(***************************************************************************)
(* the keywords some message names *)
ListedKeywords == UNION {SeqToSet(l) : l \in KwLists}

NewKeyword ==
    [fetch_status |-> "pending", partial_rank_status |-> "pending",
     rank_status |-> "pending"]

FetchedKeyword ==
    [fetch_status |-> "success", partial_rank_status |-> "pending",
     rank_status |-> "pending"]

SystemInit ==
    /\ qstate = [m \in Msgs |-> "unsent"]
    /\ rc = [m \in Msgs |-> 0]
    /\ body = [m \in Msgs |-> NoBody]
    /\ hist = [m \in Msgs |-> NoRec]
    /\ \E F \in {1 .. n : n \in 0 .. Cardinality(ListedKeywords)} :
         /\ kw = [k \in Keywords |-> IF k \in F THEN FetchedKeyword ELSE NewKeyword]
         /\ serp = [k \in Keywords |->
                      IF k \in F THEN [i \in 1 .. NumSerp |-> "pending"] ELSE <<>>]
    /\ running = TRUE
    /\ pc = "poll"
    /\ batch = <<>>
    /\ cur = NoMsg
    /\ curRc = 0
    /\ todo = <<>>
    /\ result = NoResult
    /\ ext = "none"
    /\ runs = [m \in Msgs |-> 0]
    /\ path = "none"
    /\ last = NoMsg
    /\ epc = "none"
    /\ extFail = 0
    /\ rows = <<>>
    /\ wpc = [w \in Workers |-> "idle"]
    /\ wargs = [w \in Workers |-> NoArgs]
    /\ wpath = [w \in Workers |-> "none"]
    /\ sub = 0
    /\ pre = NoPre
    /\ cancelAt = 0

(* no call of a pure function under way *)
NoCall ==
    [fn |-> "none", failed_count |-> 0, total_count |-> 0, weight |-> 0,
     score_thresholds |-> <<>>, yen |-> 0, ret |-> "none"]

(* no message is being timed *)
NoTimer == [left |-> 0, slept |-> 0, extended |-> 0]

Init ==
    /\ SystemInit
    /\ driver = 0
    /\ zombie = {}
    /\ trail = <<>>
    /\ call = NoCall
    /\ consecutive_errors = 0
    /\ timer = NoTimer

passVars == <<driver, zombie, trail>>

loopVars == <<consecutive_errors, timer>>

unitVars == <<passVars, call, loopVars>>

consumerVars ==
    <<running, pc, batch, cur, curRc, todo, result, ext, runs, path, last, epc, extFail>>

extVars == <<epc, extFail>>

upsertVars == <<rows, wpc, wargs, wpath>>

itemVars == <<sub, pre, cancelAt>>

(***************************************************************************)
(* Producer, other senders, monitor, cancel API, queue.                    *)
(***************************************************************************)
(* SQSProducerService.send_job: send, then log the QUEUED row; the job id  *)
(* is fresh, here the message's own number                                 *)
SendJob(m, b) ==
    /\ qstate[m] = "unsent"
    /\ qstate' = [qstate EXCEPT ![m] = "visible"]
    /\ body' = [body EXCEPT ![m] = b]
    /\ hist' = create_or_update(hist, m, "queued", 0, m, MessageTypeEnum(b.type), NoCount)
    /\ UNCHANGED <<rc, kw, serp>>
    /\ UNCHANGED <<consumerVars, upsertVars, itemVars, unitVars>>

(* a message put on the queue by another sender: no history row *)
SendForeign(m, b) ==
    /\ qstate[m] = "unsent"
    /\ qstate' = [qstate EXCEPT ![m] = "visible"]
    /\ body' = [body EXCEPT ![m] = b]
    /\ UNCHANGED <<rc, hist, kw, serp>>
    /\ UNCHANGED <<consumerVars, upsertVars, itemVars, unitVars>>

(* the queue's invisibility window of a received message runs out *)
Expire(m) ==
    /\ qstate[m] = "inflight"
    /\ qstate' = [qstate EXCEPT ![m] = "visible"]
    /\ UNCHANGED <<rc, body, hist, kw, serp>>
    /\ UNCHANGED <<consumerVars, upsertVars, itemVars, unitVars>>

(* SQSMonitorService._fetch_queue_messages for one message: a receive      *)
(* that leaves the message visible, _parse_message, _log_message_to_db.    *)
(* peek: the message was read by the in-flight peek loop, which runs when  *)
(* the queue's approximate in-flight count is positive                     *)
MonitorLog(m, peek) ==
    /\ qstate[m] = "visible"
    /\ rc[m] < MaxReceive
    /\ peek => \E n \in Msgs : rc[n] > 0
    /\ rc' = [rc EXCEPT ![m] = @ + 1]
    /\ LET parsed == body[m].kind = "object"
           job == IF parsed THEN m ELSE NoJob
           mtype == IF parsed THEN MessageTypeEnum(body[m].type) ELSE "none"
           count == IF parsed THEN rc[m] + 1 ELSE 0
       IN  hist' = create_or_update(hist, m, IF peek THEN "processing" ELSE "queued",
                                    0, job, mtype, count)
    /\ UNCHANGED <<qstate, body, kw, serp>>
    /\ UNCHANGED <<consumerVars, upsertVars, itemVars, unitVars>>

(* the cancel endpoint: cancel_by_job_id, the accepted case (a rejected     *)
(* cancel writes nothing)                                                  *)
CancelByJobId(job) ==
    /\ cancel_accepted(hist, get_by_job_id(hist, job))
    /\ hist' = cancel_by_job_id(hist, job)
    /\ cancelAt' = IF pc = "items" /\ sub >= 1 /\ cur = job THEN Head(todo) ELSE cancelAt
    /\ UNCHANGED <<qstate, rc, body, kw, serp, sub, pre>>
    /\ UNCHANGED <<consumerVars, upsertVars, unitVars>>

(***************************************************************************)
(* SQSConsumer: signal handler and poll loop (start).                      *)
(***************************************************************************)
(* _signal_handler *)
Signal ==
    /\ running
    /\ pc # "stopped"
    /\ running' = FALSE
    /\ UNCHANGED <<qstate, rc, body, hist, kw, serp, pc, batch, cur, curRc,
                   todo, result, ext, runs, path, last>>
    /\ UNCHANGED <<extVars, upsertVars, itemVars, unitVars>>

RECURSIVE SeqsOf(_, _)
(* the sequences without repetition of at most n members of S, in any order *)
SeqsOf(S, n) ==
    IF n = 0 \/ S = {}
    THEN {<<>>}
    ELSE {<<>>} \cup UNION {{<<x>> \o t : t \in SeqsOf(S \ {x}, n - 1)} : x \in S}

(* _receive_messages returning messages: each becomes in flight and its    *)
(* receive count goes up by one                                            *)
Receive ==
    /\ pc = "poll"
    /\ running
    /\ \E ms \in SeqsOf({m \in Msgs : qstate[m] = "visible" /\ rc[m] < MaxReceive},
                        WORKER_MAX_MESSAGES) :
         /\ ms # <<>>
         /\ qstate' = [m \in Msgs |-> IF m \in SeqToSet(ms) THEN "inflight" ELSE qstate[m]]
         /\ rc' = [m \in Msgs |-> IF m \in SeqToSet(ms) THEN rc[m] + 1 ELSE rc[m]]
         /\ batch' = [i \in 1 .. Len(ms) |-> [msg |-> ms[i], count |-> rc[ms[i]] + 1]]
    /\ pc' = "loop"
    /\ consecutive_errors' = 0
    /\ UNCHANGED <<body, hist, kw, serp, running, cur, curRc, todo, result, ext, runs,
                   path, last>>
    /\ UNCHANGED <<extVars, upsertVars, itemVars, passVars, call, timer>>

(* while self.running: false *)
PollExit ==
    /\ pc = "poll"
    /\ ~running
    /\ pc' = "stopped"
    /\ UNCHANGED <<qstate, rc, body, hist, kw, serp, running, batch, cur, curRc,
                   todo, result, ext, runs, path, last>>
    /\ UNCHANGED <<extVars, upsertVars, itemVars, unitVars>>

(* a for loop that does not look at running *)
LoopNextRegardless ==
    /\ pc = "loop"
    /\ batch # <<>>
    /\ cur' = Head(batch).msg
    /\ curRc' = Head(batch).count
    /\ batch' = Tail(batch)
    /\ pc' = "msg"
    /\ UNCHANGED <<qstate, rc, body, hist, kw, serp, running, todo, result, ext,
                   runs, path, last>>
    /\ UNCHANGED <<extVars, upsertVars, itemVars, unitVars>>

(* for message in messages, running: enter _process_message *)
LoopNext ==
    /\ pc = "loop"
    /\ batch # <<>>
    /\ running
    /\ cur' = Head(batch).msg
    /\ curRc' = Head(batch).count
    /\ batch' = Tail(batch)
    /\ pc' = "msg"
    /\ UNCHANGED <<qstate, rc, body, hist, kw, serp, running, todo, result, ext,
                   runs, path, last>>
    /\ UNCHANGED <<extVars, upsertVars, itemVars, unitVars>>

(* back in the for loop: the locals of _process_message are gone *)
LoopBack ==
    /\ pc = "ret"
    /\ pc' = "loop"
    /\ curRc' = 0
    /\ result' = NoResult
    /\ ext' = "none"
    /\ path' = "none"
    /\ last' = NoMsg
    /\ UNCHANGED <<qstate, rc, body, hist, kw, serp, running, batch, cur, todo, runs>>
    /\ UNCHANGED <<extVars, upsertVars, itemVars, unitVars>>

(* for message in messages, not running: change_message_visibility(0) *)
ReturnToQueue ==
    /\ pc = "loop"
    /\ batch # <<>>
    /\ ~running
    /\ qstate' = [qstate EXCEPT ![Head(batch).msg] = IF @ = "inflight" THEN "visible" ELSE @]
    /\ batch' = Tail(batch)
    /\ UNCHANGED <<rc, body, hist, kw, serp, running, pc, cur, curRc, todo, result,
                   ext, runs, path, last>>
    /\ UNCHANGED <<extVars, upsertVars, itemVars, unitVars>>

(* the for loop is exhausted *)
LoopEnd ==
    /\ pc = "loop"
    /\ batch = <<>>
    /\ pc' = "poll"
    /\ UNCHANGED <<qstate, rc, body, hist, kw, serp, running, batch, cur, curRc,
                   todo, result, ext, runs, path, last>>
    /\ UNCHANGED <<extVars, upsertVars, itemVars, unitVars>>

(***************************************************************************)
(* SQSConsumer._process_message, up to the call of the router.             *)
(***************************************************************************)
(* _delete_message *)
delete_message(q, m) == [q EXCEPT ![m] = "deleted"]

(* a retry ceiling that is one delivery late *)
MaxRetriesExceededOffByOne(sqs_receive_count) == sqs_receive_count > MAX_RETRIES + 1

(* the test of the retry ceiling *)
MaxRetriesExceeded(sqs_receive_count) == sqs_receive_count > MAX_RETRIES

(* the job is large: a Visibility Extender is started *)
NeedsExtender(keyword_ids, message_type) ==
    Len(keyword_ids) >= LARGE_JOB_KEYWORDS \/ message_type = "full_rank"

(* _process_message returns along path p *)
Return(p) ==
    /\ pc' = "ret"
    /\ cur' = NoMsg
    /\ last' = cur
    /\ path' = p

(* json.loads raises JSONDecodeError *)
ProcessMalformed ==
    /\ pc = "msg"
    /\ body[cur].kind = "malformed"
    /\ hist' = update_message_history(hist, cur, "failed", "JSON decode error",
                                      "MALFORMED_MESSAGE", 0, NoJob, "none")
    /\ qstate' = delete_message(qstate, cur)
    /\ Return("malformed")
    /\ UNCHANGED <<rc, body, kw, serp, running, batch, curRc, todo, result, ext, runs>>
    /\ UNCHANGED <<extVars, upsertVars, itemVars, unitVars>>

(* no handler: the exception leaves _process_message and ends the loop *)
HandleUnexpectedRaising(parsed) ==
    /\ pc' = "stopped"
    /\ cur' = NoMsg
    /\ last' = cur
    /\ path' = "unexpected"
    /\ UNCHANGED <<qstate, rc, body, hist, kw, serp, running, batch, curRc, todo,
                   result, ext, runs>>
    /\ UNCHANGED <<extVars, upsertVars, itemVars, unitVars>>

(* an exception handler that also deletes the message *)
HandleUnexpectedDeleting(parsed) ==
    /\ hist' = update_message_history(hist, cur, "failed", "Unexpected error",
                                      "UNEXPECTED_ERROR", 0, NoJob, "none")
    /\ qstate' = delete_message(qstate, cur)
    /\ Return("unexpected")
    /\ UNCHANGED <<rc, body, kw, serp, running, batch, curRc, todo, result, ext, runs>>
    /\ UNCHANGED <<extVars, upsertVars, itemVars, unitVars>>

(* the handler of an unexpected exception; parsed: keyword_ids and         *)
(* message_type were bound before the exception                            *)
HandleUnexpected(parsed) ==
    /\ hist' = update_message_history(hist, cur, "failed", "Unexpected error",
                                      "UNEXPECTED_ERROR", 0, NoJob, "none")
    /\ LET ids == IF parsed /\ ~body[cur].kwsNull THEN body[cur].kws ELSE <<>>
       IN  /\ kw' = fail_keywords_kw(kw, ids, body[cur].type)
           /\ serp' = fail_keywords_serp(serp, ids, body[cur].type)
    /\ Return("unexpected")
    /\ UNCHANGED <<qstate, rc, body, running, batch, curRc, todo, result, ext, runs>>
    /\ UNCHANGED <<extVars, upsertVars, itemVars, unitVars>>

(* body.get on a body that is not a JSON object raises *)
ProcessNonObject ==
    /\ pc = "msg"
    /\ body[cur].kind = "nonobject"
    /\ HandleUnexpected(FALSE)

(* receive count over the ceiling: FAILED, fail the keywords, delete *)
ProcessMaxRetries ==
    /\ pc = "msg"
    /\ body[cur].kind = "object"
    /\ MaxRetriesExceeded(curRc)
    /\ hist' = update_message_history(hist, cur, "failed", "Max retries exceeded",
                                      "MAX_RETRIES_EXCEEDED", 0, NoJob, "none")
    /\ LET ids == IF body[cur].kwsNull THEN <<>> ELSE body[cur].kws
       IN  /\ kw' = fail_keywords_kw(kw, ids, body[cur].type)
           /\ serp' = fail_keywords_serp(serp, ids, body[cur].type)
    /\ qstate' = delete_message(qstate, cur)
    /\ Return("max_retries")
    /\ UNCHANGED <<rc, body, running, batch, curRc, todo, result, ext, runs>>
    /\ UNCHANGED <<extVars, upsertVars, itemVars, unitVars>>

(* keyword_ids is null: slicing it for the log line raises *)
ProcessNullKeywords ==
    /\ pc = "msg"
    /\ body[cur].kind = "object"
    /\ ~MaxRetriesExceeded(curRc)
    /\ body[cur].kwsNull
    /\ HandleUnexpected(TRUE)

(* a cancelled branch that deletes the message and keeps the row's status *)
ProcessCancelledUnmarked ==
    /\ pc = "msg"
    /\ body[cur].kind = "object"
    /\ ~MaxRetriesExceeded(curRc)
    /\ ~body[cur].kwsNull
    /\ is_job_cancelled(hist, cur)
    /\ qstate' = delete_message(qstate, cur)
    /\ Return("cancelled")
    /\ UNCHANGED <<rc, body, hist, kw, serp, running, batch, curRc, todo, result, ext, runs>>
    /\ UNCHANGED <<extVars, upsertVars, itemVars, unitVars>>

(* the row found by job id is CANCELLED: delete, mark DELETED, return *)
ProcessCancelled ==
    /\ pc = "msg"
    /\ body[cur].kind = "object"
    /\ ~MaxRetriesExceeded(curRc)
    /\ ~body[cur].kwsNull
    /\ is_job_cancelled(hist, cur)
    /\ qstate' = delete_message(qstate, cur)
    /\ hist' = update_status(hist, cur, "deleted", "none", "none")
    /\ Return("cancelled")
    /\ UNCHANGED <<rc, body, kw, serp, running, batch, curRc, todo, result, ext, runs>>
    /\ UNCHANGED <<extVars, upsertVars, itemVars, unitVars>>

(* mark PROCESSING, start the extender for a large job, call the router *)
ProcessStart ==
    /\ pc = "msg"
    /\ body[cur].kind = "object"
    /\ ~MaxRetriesExceeded(curRc)
    /\ ~body[cur].kwsNull
    /\ ~is_job_cancelled(hist, cur)
    /\ hist' = update_message_history(hist, cur, "processing", "none", "none",
                                      curRc, cur, body[cur].type)
    /\ ext' = IF NeedsExtender(body[cur].kws, body[cur].type) THEN "running" ELSE "none"
    /\ epc' = IF NeedsExtender(body[cur].kws, body[cur].type) THEN "wait" ELSE epc
    /\ extFail' = 0
    /\ runs' = [runs EXCEPT ![cur] = @ + 1]
    /\ pc' = "router"
    /\ pre' = [kw |-> kw, serp |-> serp]
    /\ UNCHANGED <<qstate, rc, body, kw, serp, running, batch, cur, curRc, todo,
                   result, path, last, sub, cancelAt>>
    /\ UNCHANGED <<upsertVars, unitVars>>

(***************************************************************************)
(* Job Router: UnifiedJobProcessor.process_job, FetchProcessor.process_job *)
(* and RankProcessor.process_job, up to the first item.                    *)
(***************************************************************************)
(* keywords whose fetch phase is still pending *)
keywords_with_pending_fetch(k, ids) ==
    SelectSeq(ids, LAMBDA x : k[x].fetch_status = "pending")

(* first phase of run_rank / run_partial_rank: the keywords to process *)
keywords_to_process(k, ids, field) ==
    SelectSeq(ids, LAMBDA x : k[x].fetch_status # "pending" /\ k[x][field] # "success")

(* the result for a job type the router has no processor for *)
UnknownTypeResult == MkResult(FALSE, FALSE, "Unknown message type")

(* a rejection that asks for a retry *)
PendingFetchResultRetried == MkResult(FALSE, FALSE, "PENDING_FETCH_STATUS")

(* the rejection of a rank job that references a keyword not yet fetched *)
PendingFetchResult == MkResult(FALSE, TRUE, "PENDING_FETCH_STATUS")

(* unknown job type *)
RouteUnknown ==
    /\ pc = "router"
    /\ body[cur].type \notin RoutedTypes
    /\ result' = UnknownTypeResult
    /\ pc' = "finish"
    /\ UNCHANGED <<qstate, rc, body, hist, kw, serp, running, batch, cur, curRc,
                   todo, ext, runs, path, last>>
    /\ UNCHANGED <<extVars, upsertVars, itemVars, unitVars>>

(* building the TokenInfo from token_info raises inside the processor *)
RouteBadToken ==
    /\ pc = "router"
    /\ body[cur].type \in RoutedTypes
    /\ ~body[cur].tokenOk
    /\ result' = IF body[cur].type = "fetch"
                 THEN MkResult(FALSE, FALSE, "Fetch failed")
                 ELSE MkResult(FALSE, FALSE, "Exception")
    /\ pc' = "finish"
    /\ UNCHANGED <<qstate, rc, body, hist, kw, serp, running, batch, cur, curRc,
                   todo, ext, runs, path, last>>
    /\ UNCHANGED <<extVars, upsertVars, itemVars, unitVars>>

(* fetch job: run_fetch takes every keyword *)
RouteFetch ==
    /\ pc = "router"
    /\ body[cur].type = "fetch"
    /\ body[cur].tokenOk
    /\ todo' = body[cur].kws
    /\ pc' = "items"
    /\ UNCHANGED <<qstate, rc, body, hist, kw, serp, running, batch, cur, curRc,
                   result, ext, runs, path, last>>
    /\ UNCHANGED <<extVars, upsertVars, itemVars, unitVars>>

(* rank job referencing a keyword whose fetch phase is pending: rejected *)
RouteRankRejected ==
    /\ pc = "router"
    /\ body[cur].type \in {"partial_rank", "full_rank"}
    /\ body[cur].tokenOk
    /\ keywords_with_pending_fetch(kw, body[cur].kws) # <<>>
    /\ result' = PendingFetchResult
    /\ pc' = "finish"
    /\ UNCHANGED <<qstate, rc, body, hist, kw, serp, running, batch, cur, curRc,
                   todo, ext, runs, path, last>>
    /\ UNCHANGED <<extVars, upsertVars, itemVars, unitVars>>

(* rank job accepted: run_rank / run_partial_rank filter the keywords *)
RouteRank ==
    /\ pc = "router"
    /\ body[cur].type \in {"partial_rank", "full_rank"}
    /\ body[cur].tokenOk
    /\ keywords_with_pending_fetch(kw, body[cur].kws) = <<>>
    /\ todo' = keywords_to_process(kw, body[cur].kws, StatusField(body[cur].type))
    /\ pc' = "items"
    /\ UNCHANGED <<qstate, rc, body, hist, kw, serp, running, batch, cur, curRc,
                   result, ext, runs, path, last>>
    /\ UNCHANGED <<extVars, upsertVars, itemVars, unitVars>>

(***************************************************************************)
(* Ranking Pipeline: one target item per step.                             *)
(***************************************************************************)
(* the result the processors build when run_* has returned *)
JobDoneResult(message_type) ==
    IF message_type = "fetch"
    THEN MkResult(TRUE, TRUE, "Fetch completed")
    ELSE MkResult(TRUE, TRUE, "Job completed successfully")

(* the item boundary finds the job cancelled: this item and the ones not   *)
(* yet started go back to pending; track_batch_history swallows the        *)
(* JobCancelledException, so run_* returns and the processor reports done  *)
ItemCancelled ==
    /\ pc = "items"
    /\ todo # <<>>
    /\ sub = 0
    /\ is_job_cancelled(hist, cur)
    /\ kw' = set_keywords_status(kw, todo, StatusField(body[cur].type), "pending")
    /\ todo' = <<>>
    /\ result' = JobDoneResult(body[cur].type)
    /\ pc' = "finish"
    /\ UNCHANGED <<qstate, rc, body, hist, serp, running, batch, cur, curRc, ext,
                   runs, path, last>>
    /\ UNCHANGED <<extVars, upsertVars, itemVars, unitVars>>

(* _process_keyword_for_fetch behind track_batch_detail.  out: "ok" the    *)
(* results are stored; "no_items" the search returned nothing; "raise" a   *)
(* later call raised, which the decorator swallows                         *)
FetchItem(out) ==
    /\ pc = "items"
    /\ todo # <<>>
    /\ body[cur].type = "fetch"
    /\ ~is_job_cancelled(hist, cur)
    /\ LET k == Head(todo) IN
         /\ kw' = [kw EXCEPT ![k].fetch_status =
                      CASE out = "ok" -> "success"
                        [] out = "no_items" -> "failed"
                        [] OTHER -> "processing"]
         /\ serp' = IF out = "ok" /\ serp[k] = <<>>
                    THEN [serp EXCEPT ![k] = [i \in 1 .. NumSerp |-> "pending"]]
                    ELSE serp
    /\ todo' = Tail(todo)
    /\ UNCHANGED <<qstate, rc, body, hist, running, pc, batch, cur, curRc, result,
                   ext, runs, path, last>>
    /\ UNCHANGED <<extVars, upsertVars, itemVars, unitVars>>

(* SerpResultRepository.update_failed_to_pending for one keyword *)
update_failed_to_pending(s) ==
    [i \in 1 .. Len(s) |-> IF s[i] = "failed" THEN "pending" ELSE s[i]]

(* a list that takes WAITING in place of PARTIAL *)
list_pending_failed_or_waiting(s) ==
    {i \in 1 .. Len(s) : s[i] \in {"pending", "failed", "waiting", "processing"}}

(* SerpResultRepository.list_pending_failed_or_partial: the positions *)
list_pending_failed_or_partial(s) ==
    {i \in 1 .. Len(s) : s[i] \in {"pending", "failed", "partial", "processing"}}

(* the one-third rule with the threshold rounded down *)
FinalStatusFloor(failed_count, total_count) ==
    LET threshold == IF total_count > 0 THEN total_count \div 3 ELSE 3
    IN  IF failed_count >= threshold THEN "failed" ELSE "success"

(* the one-third rule for the item's final status *)
FinalStatus(failed_count, total_count) ==
    LET threshold == IF total_count > 0 THEN (total_count + 2) \div 3 ELSE 3
    IN  IF failed_count >= threshold THEN "failed" ELSE "success"

count_failed(s) == Cardinality({i \in 1 .. Len(s) : s[i] = "failed"})

(* a loop that takes the sub-results from the last position down *)
NextSubLast(s, i) ==
    LET R == {j \in 1 .. Len(s) :
                 /\ s[j] \in {"pending", "partial", "processing"}
                 /\ j >= i}
    IN  IF R = {} THEN 0 ELSE CHOOSE j \in R : \A n \in R : j >= n

(* the next sub-result, from position i on, that the loop of              *)
(* _process_keyword_for_rank does not skip; 0 when there is none           *)
NextSub(s, i) ==
    LET R == {j \in list_pending_failed_or_partial(s) : j >= i /\ s[j] # "failed"}
    IN  IF R = {} THEN 0 ELSE CHOOSE j \in R : \A n \in R : j <= n

(* the status a sub-result gets when its ranking is stored *)
RankedStatus(message_type) == IF message_type = "full_rank" THEN "success" ELSE "partial"

(* the keyword table when the item of keyword k ends with sub-results s *)
ItemEnd(kws, k, field, s) ==
    [kws EXCEPT ![k][field] = FinalStatus(count_failed(s), Len(s))]

(* the gate reports the job cancelled inside _process_keyword_for_rank:    *)
(* check_cancellation_and_raise raises, the except clause of the item      *)
(* marks the keyword failed and re-raises                                  *)
GateInItem(kws, k, field) == [kws EXCEPT ![k][field] = "failed"]

(* run_rank / run_partial_rank at the next keyword: marked PROCESSING, the *)
(* gate passed, failed sub-results back to pending, then                   *)
(* _process_keyword_for_rank / _process_keyword_for_partial_rank up to its *)
(* first sub-result.  raised: the item's work raised before any sub-result *)
RankItem(raised) ==
    /\ pc = "items"
    /\ todo # <<>>
    /\ sub = 0
    /\ body[cur].type \in {"partial_rank", "full_rank"}
    /\ ~is_job_cancelled(hist, cur)
    /\ LET k == Head(todo)
           field == StatusField(body[cur].type)
           s1 == update_failed_to_pending(serp[k])
       IN  /\ serp' = [serp EXCEPT ![k] = s1]
           /\ IF raised
              THEN /\ kw' = [kw EXCEPT ![k][field] = "failed"]
                   /\ todo' = Tail(todo)
                   /\ sub' = 0
              ELSE IF NextSub(s1, 1) = 0
              THEN /\ kw' = ItemEnd(kw, k, field, s1)
                   /\ todo' = Tail(todo)
                   /\ sub' = 0
              ELSE /\ kw' = [kw EXCEPT ![k][field] = "processing"]
                   /\ todo' = todo
                   /\ sub' = NextSub(s1, 1)
    /\ UNCHANGED <<qstate, rc, body, hist, running, pc, batch, cur, curRc, result,
                   ext, runs, path, last, pre, cancelAt>>
    /\ UNCHANGED <<extVars, upsertVars, unitVars>>

(* a sub-result loop that does not consult the gate *)
check_cancellation_skipped(h, job) == FALSE

(* check_cancellation_and_raise at the head of a turn of the sub-result    *)
(* loop: TRUE when it raises JobCancelledException                         *)
check_cancellation_and_raise(h, job) == is_job_cancelled(h, job)

(* the work of one turn of the sub-result loop: the sub-result is ranked   *)
(* or marked failed; after the last one the item's final status            *)
RankSubStep(out) ==
    /\ pc = "items"
    /\ sub >= 1
    /\ LET k == Head(todo)
           field == StatusField(body[cur].type)
           s2 == [serp[k] EXCEPT ![sub] = out]
       IN  /\ out \in {RankedStatus(body[cur].type), "failed"}
           /\ serp' = [serp EXCEPT ![k] = s2]
           /\ IF NextSub(s2, sub + 1) = 0
              THEN /\ kw' = ItemEnd(kw, k, field, s2)
                   /\ todo' = Tail(todo)
                   /\ sub' = 0
              ELSE /\ sub' = NextSub(s2, sub + 1)
                   /\ UNCHANGED <<kw, todo>>
    /\ UNCHANGED <<qstate, rc, body, hist, running, pc, batch, cur, curRc, result,
                   ext, runs, path, last, pre, cancelAt>>
    /\ UNCHANGED <<extVars, upsertVars, call, loopVars>>

(* one turn of the sub-result loop with the gate passed *)
RankSub(out) ==
    /\ ~check_cancellation_and_raise(hist, cur)
    /\ RankSubStep(out)
    /\ UNCHANGED passVars

(* one turn of the sub-result loop of _process_keyword_for_rank with the   *)
(* gate reporting the job cancelled: track_batch_detail swallows the       *)
(* JobCancelledException and run_rank goes on to its next keyword          *)
RankSubCancelled ==
    /\ pc = "items"
    /\ sub >= 1
    /\ body[cur].type = "full_rank"
    /\ check_cancellation_and_raise(hist, cur)
    /\ kw' = GateInItem(kw, Head(todo), StatusField(body[cur].type))
    /\ todo' = Tail(todo)
    /\ sub' = 0
    /\ UNCHANGED <<qstate, rc, body, hist, serp, running, pc, batch, cur, curRc, result,
                   ext, runs, path, last, pre, cancelAt>>
    /\ UNCHANGED <<extVars, upsertVars, unitVars>>

(* the same turn in _process_keyword_for_partial_rank, which has no        *)
(* decorator: the exception reaches run_partial_rank, whose except clause  *)
(* puts this keyword and the ones not yet started back to pending and      *)
(* re-raises; track_batch_history swallows it                              *)
PartialSubCancelled ==
    /\ pc = "items"
    /\ sub >= 1
    /\ body[cur].type = "partial_rank"
    /\ check_cancellation_and_raise(hist, cur)
    /\ kw' = set_keywords_status(GateInItem(kw, Head(todo), StatusField(body[cur].type)),
                                 todo, StatusField(body[cur].type), "pending")
    /\ todo' = <<>>
    /\ sub' = 0
    /\ result' = JobDoneResult(body[cur].type)
    /\ pc' = "finish"
    /\ UNCHANGED <<qstate, rc, body, hist, serp, running, batch, cur, curRc,
                   ext, runs, path, last, pre, cancelAt>>
    /\ UNCHANGED <<extVars, upsertVars, unitVars>>

(* run_* has gone through every keyword *)
JobReturn ==
    /\ pc = "items"
    /\ todo = <<>>
    /\ result' = JobDoneResult(body[cur].type)
    /\ pc' = "finish"
    /\ UNCHANGED <<qstate, rc, body, hist, kw, serp, running, batch, cur, curRc,
                   todo, ext, runs, path, last>>
    /\ UNCHANGED <<extVars, upsertVars, itemVars, unitVars>>

(***************************************************************************)
(* VisibilityExtender._extend_loop, the thread started by ProcessStart.    *)
(***************************************************************************)
(* where the loop goes after a failed extension that ends the thread *)
AfterExtensionDying(ok, e) == IF ok /\ e = "running" THEN "wait" ELSE "none"

(* where the loop goes after an extension call, ok or caught: back to the  *)
(* while test on the running flag                                          *)
AfterExtension(ok, e) == IF e = "running" THEN "wait" ELSE "none"

(* one turn of the while loop: the interval has passed with the flag still *)
(* set and change_message_visibility returns (ok) or raises, which the     *)
(* except clause of the loop catches and logs.  The call raises when the   *)
(* message is not in flight, and may raise for any other reason            *)
ExtendCall(ok) ==
    /\ epc = "wait"
    /\ ext = "running"
    /\ ok => \E m \in Msgs : qstate[m] = "inflight"
    /\ ~ok => extFail < MaxExtFail
    /\ epc' = AfterExtension(ok, ext)
    /\ extFail' = IF ok THEN extFail ELSE extFail + 1
    /\ UNCHANGED <<qstate, rc, body, hist, kw, serp, running, pc, batch, cur, curRc,
                   todo, result, ext, runs, path, last>>
    /\ UNCHANGED <<upsertVars, itemVars, unitVars>>

(***************************************************************************)
(* SQSConsumer._process_message after the router has returned.             *)
(***************************************************************************)
(* a finally block that leaves the extender alone *)
KeepExtender(e) == e

(* a deletion rule that ignores should_delete *)
ShouldDeleteOnSuccess(res) == res.success

(* VisibilityExtender.stop, thread.join(timeout=5): a thread in its wait   *)
(* sees the flag within a second and ends                                  *)
JoinExtender(t) == IF t = "wait" THEN "none" ELSE t

(* VisibilityExtender.stop in the finally block *)
StopExtender(e) == IF e = "running" THEN "stopped" ELSE e

(* delete the message iff the job succeeded or asked for deletion *)
ShouldDelete(res) == res.success \/ res.should_delete

Finish ==
    /\ pc = "finish"
    /\ ext' = StopExtender(ext)
    /\ epc' = JoinExtender(epc)
    /\ extFail' = 0
    /\ IF result.success
       THEN /\ hist' = update_message_history(hist, cur, "completed", "none", "none",
                                              0, NoJob, "none")
            /\ UNCHANGED <<kw, serp>>
       ELSE /\ hist' = update_message_history(hist, cur, "failed", result.reason,
                          IF result.should_delete THEN "JOB_REJECTED" ELSE "PROCESS_FAILED",
                          0, NoJob, "none")
            /\ kw' = fail_keywords_kw(kw, body[cur].kws, body[cur].type)
            /\ serp' = fail_keywords_serp(serp, body[cur].kws, body[cur].type)
    /\ qstate' = IF ShouldDelete(result) THEN delete_message(qstate, cur) ELSE qstate
    /\ Return(CASE result.success -> "completed"
                [] ~result.success /\ result.should_delete -> "rejected"
                [] OTHER -> "retry")
    /\ pre' = NoPre
    /\ cancelAt' = 0
    /\ UNCHANGED <<rc, body, running, batch, curRc, todo, result, runs, sub>>
    /\ UNCHANGED <<upsertVars, unitVars>>

(***************************************************************************)
(* The system.                                                             *)
(***************************************************************************)
(* the steps of the consumer process *)
ConsumerNext ==
    \/ Receive
    \/ PollExit
    \/ LoopNext
    \/ LoopBack
    \/ ReturnToQueue
    \/ LoopEnd
    \/ ProcessMalformed
    \/ ProcessNonObject
    \/ ProcessMaxRetries
    \/ ProcessNullKeywords
    \/ ProcessCancelled
    \/ ProcessStart
    \/ RouteUnknown
    \/ RouteBadToken
    \/ RouteFetch
    \/ RouteRankRejected
    \/ RouteRank
    \/ ItemCancelled
    \/ \E out \in {"ok", "no_items", "raise"} : FetchItem(out)
    \/ \E raised \in BOOLEAN : RankItem(raised)
    \/ \E out \in StatusConst : RankSub(out)
    \/ RankSubCancelled
    \/ PartialSubCancelled
    \/ JobReturn
    \/ Finish

Next ==
    \/ \E m \in Msgs, b \in ProducerBodies : SendJob(m, b)
    \/ \E m \in Msgs, b \in ForeignBodies : SendForeign(m, b)
    \/ \E m \in Msgs : Expire(m)
    \/ \E m \in Msgs, peek \in BOOLEAN : MonitorLog(m, peek)
    \/ \E m \in Msgs : CancelByJobId(m)
    \/ Signal
    \/ ConsumerNext
    \/ \E ok \in BOOLEAN : ExtendCall(ok)

Spec == Init /\ [][Next]_vars

(* the consumer is a running process: it takes its next step *)
FairSpec == Spec /\ WF_vars(ConsumerNext)


(***************************************************************************)
(* Properties of the consumer.                                             *)
(***************************************************************************)
(* this step is the return of _process_message for the message cur *)
Returns == cur # NoMsg /\ cur' = NoMsg

(* this step is the consumer's handling of the router's result *)
Finishes == pc = "finish" /\ pc' = "ret"

PhaseFields == {"fetch_status", "partial_rank_status", "rank_status"}

(* keyword x carries FAILED for the job type, or in any phase when the job *)
(* type has no phase                                                       *)
MarkedFailed(k, x, message_type) ==
    IF message_type \in RoutedTypes
    THEN k[x][StatusField(message_type)] = "failed"
    ELSE \E f \in PhaseFields : k[x][f] = "failed"

(* C1: every delivery whose receive count exceeds MAX_RETRIES ends with    *)
(* the message deleted from the queue, its history row (when it has one)   *)
(* FAILED, and every keyword of a fetch, partial_rank or full_rank job     *)
(* FAILED in that phase.                                                   *)
C1_MaxRetriesDeleted ==
    [][(Returns /\ curRc > MAX_RETRIES) =>
         /\ qstate'[cur] = "deleted"
         /\ hist[cur].exists => hist'[cur].status = "failed"
         /\ (body[cur].kind = "object" /\ ~body[cur].kwsNull
               /\ body[cur].type \in RoutedTypes) =>
              \A x \in SeqToSet(body[cur].kws) :
                  kw'[x][StatusField(body[cur].type)] = "failed"]_vars

(* C2: the router is entered only by deliveries whose receive count is at  *)
(* most MAX_RETRIES, and no message has it run more than MAX_RETRIES times. *)
C2_RouterWithinRetries ==
    /\ pc \in {"router", "items", "finish"} => curRc <= MAX_RETRIES
    /\ \A m \in Msgs : runs[m] <= MAX_RETRIES

(* a message that went through the router MAX_RETRIES times has just been  *)
(* escalated to max retries exceeded and deleted                           *)
C2_Witness ==
    /\ pc = "ret"
    /\ path = "max_retries"
    /\ runs[last] = MAX_RETRIES
    /\ qstate[last] = "deleted"

(* C3 as stated: on the router's result the consumer sets COMPLETED on     *)
(* success, else FAILED with every referenced keyword marked FAILED; it    *)
(* deletes the message iff success or should_delete, and otherwise leaves  *)
(* the message as it was in the queue.                                     *)
C3_Original ==
    [][Finishes =>
         /\ result.success => hist'[cur].status = "completed"
         /\ ~result.success =>
              (/\ hist'[cur].status = "failed"
               /\ \A x \in SeqToSet(body[cur].kws) :
                      MarkedFailed(kw', x, body[cur].type))
         /\ (qstate'[cur] = "deleted") <=> (result.success \/ result.should_delete)
         /\ ~(result.success \/ result.should_delete) => qstate'[cur] = qstate[cur]]_vars

(* C3: on the router's result the consumer sets COMPLETED on success, else *)
(* FAILED; on failure every referenced keyword of a fetch, partial_rank or *)
(* full_rank job is FAILED in that job's phase, and for any other job type *)
(* no keyword is written; the message is deleted iff success or            *)
(* should_delete, and otherwise left as it was in the queue.               *)
C3_ResultHandled ==
    [][Finishes =>
         /\ result.success => (hist'[cur].status = "completed" /\ kw' = kw)
         /\ ~result.success =>
              (/\ hist'[cur].status = "failed"
               /\ hist'[cur].error_details = result.reason
               /\ body[cur].type \in RoutedTypes =>
                    \A x \in SeqToSet(body[cur].kws) :
                        kw'[x][StatusField(body[cur].type)] = "failed"
               /\ body[cur].type \notin RoutedTypes => kw' = kw)
         /\ (qstate'[cur] = "deleted") <=> (result.success \/ result.should_delete)
         /\ ~(result.success \/ result.should_delete) => qstate'[cur] = qstate[cur]]_vars

(* a failed job that did not ask for deletion: row FAILED, both keywords   *)
(* FAILED in the job's phase, message still in the queue                   *)
C3_Witness ==
    /\ pc = "ret"
    /\ path = "retry"
    /\ body[last].type \in RoutedTypes
    /\ Len(body[last].kws) = 2
    /\ \A x \in SeqToSet(body[last].kws) : kw[x][StatusField(body[last].type)] = "failed"
    /\ hist[last].status = "failed"
    /\ qstate[last] # "deleted"

(* C4 as stated: a delivery whose row found by job id is CANCELLED ends    *)
(* with the message deleted, the row DELETED and the router not invoked.   *)
C4_Original ==
    [][(pc = "msg" /\ pc' # "msg" /\ is_job_cancelled(hist, cur)) =>
         /\ qstate'[cur] = "deleted"
         /\ hist'[cur].status = "deleted"
         /\ runs' = runs
         /\ pc' = "ret"]_vars

(* C4: a delivery with a receive count of at most MAX_RETRIES and a list   *)
(* of keyword ids, whose row found by job id is CANCELLED, ends with the   *)
(* message deleted, the row DELETED, no keyword written and the router not *)
(* invoked; whatever the receive count, the router is not invoked.         *)
C4_CancelledDeleted ==
    [][(pc = "msg" /\ pc' # "msg" /\ is_job_cancelled(hist, cur)) =>
         /\ runs' = runs
         /\ pc' = "ret"
         /\ (curRc <= MAX_RETRIES /\ ~body[cur].kwsNull) =>
              (/\ qstate'[cur] = "deleted"
               /\ hist'[cur].status = "deleted"
               /\ kw' = kw)]_vars

(* a cancelled job's message has been deleted and its row marked DELETED   *)
C4_Witness ==
    /\ pc = "ret"
    /\ path = "cancelled"
    /\ qstate[last] = "deleted"
    /\ hist[last].status = "deleted"
    /\ runs[last] = 0

(* C5: when an unexpected exception leaves _process_message, the message   *)
(* stays in the queue as it was, and its history row (when it has one) is  *)
(* FAILED with the exception detail.                                       *)
C5_UnexpectedKept ==
    [][(Returns /\ path' = "unexpected") =>
         /\ qstate'[cur] = qstate[cur]
         /\ qstate'[cur] # "deleted"
         /\ hist[cur].exists =>
              (/\ hist'[cur].status = "failed"
               /\ hist'[cur].error_code = "UNEXPECTED_ERROR"
               /\ hist'[cur].error_details = "Unexpected error")]_vars

(* an exception has been handled: row FAILED, message not deleted          *)
C5_Witness ==
    /\ pc = "ret"
    /\ path = "unexpected"
    /\ hist[last].exists
    /\ hist[last].status = "failed"
    /\ hist[last].error_code = "UNEXPECTED_ERROR"
    /\ qstate[last] \in {"inflight", "visible"}

(* a body that fails JSON parsing has been handled *)
RejectsMalformed == Returns /\ path' = "malformed"

(* a rank job rejected for a pending fetch phase has been handled *)
RejectsPendingFetch == Finishes /\ result = PendingFetchResult

(* C6 as stated: a malformed body, and a rank job rejected for a pending   *)
(* fetch phase, end with the message deleted and the history row FAILED    *)
(* with error code JOB_REJECTED.                                           *)
C6_Original ==
    [][(RejectsMalformed \/ RejectsPendingFetch) =>
         /\ qstate'[cur] = "deleted"
         /\ hist[cur].exists =>
              (/\ hist'[cur].status = "failed"
               /\ hist'[cur].error_code = "JOB_REJECTED")]_vars

(* C6: both end with the message deleted at that delivery and the history  *)
(* row (when there is one) FAILED; the error code is MALFORMED_MESSAGE for *)
(* a body that fails JSON parsing and JOB_REJECTED for a rank job rejected *)
(* for a pending fetch phase.                                              *)
C6_Rejections ==
    [][/\ RejectsMalformed =>
            (/\ qstate'[cur] = "deleted"
             /\ runs' = runs
             /\ hist[cur].exists =>
                  (/\ hist'[cur].status = "failed"
                   /\ hist'[cur].error_code = "MALFORMED_MESSAGE"))
       /\ RejectsPendingFetch =>
            (/\ qstate'[cur] = "deleted"
             /\ hist'[cur].status = "failed"
             /\ hist'[cur].error_code = "JOB_REJECTED")]_vars

(* a rank job was rejected for a pending fetch phase at its first delivery *)
C6_Witness ==
    /\ pc = "ret"
    /\ path = "rejected"
    /\ result = PendingFetchResult
    /\ runs[last] = 1
    /\ qstate[last] = "deleted"
    /\ hist[last].status = "failed"
    /\ hist[last].error_code = "JOB_REJECTED"

(* C7: for a job type other than fetch, partial_rank and full_rank the     *)
(* router's result is a failure with should_delete true.                   *)
C7_UnknownTypeDeleted ==
    (pc = "finish" /\ body[cur].type \notin RoutedTypes) =>
        (~result.success /\ result.should_delete)

(* the job under the router is a full_rank job of the producer on two      *)
(* keywords, exactly one of which has its fetch phase pending              *)
C8_Scenario ==
    /\ cur # NoMsg
    /\ body[cur].type = "full_rank"
    /\ body[cur].tokenOk
    /\ Len(body[cur].kws) = 2
    /\ Cardinality({x \in SeqToSet(body[cur].kws) : kw[x].fetch_status = "pending"}) = 1

(* the router rejects the job and writes no keyword or sub-result          *)
C8_RouterRejects ==
    (pc = "router" /\ C8_Scenario /\ pc' # "router") =>
        (result' = PendingFetchResult /\ kw' = kw /\ serp' = serp)

(* C8 as stated: the router returns the rejection, no status of either     *)
(* keyword is modified, the message is deleted and the history row ends    *)
(* FAILED with the PENDING_FETCH_STATUS reason.                            *)
C8_Original ==
    [][/\ C8_RouterRejects
       /\ (Finishes /\ C8_Scenario) =>
            (/\ kw' = kw
             /\ qstate'[cur] = "deleted"
             /\ hist'[cur].status = "failed"
             /\ hist'[cur].error_details = "PENDING_FETCH_STATUS")]_vars

(* C8: the router returns the rejection and itself modifies no status; the *)
(* consumer then sets the rank status of both keywords FAILED and leaves   *)
(* their other statuses alone; the message is deleted and the history row  *)
(* ends FAILED, JOB_REJECTED, with the PENDING_FETCH_STATUS reason.        *)
C8_PendingFetchScenario ==
    [][/\ C8_RouterRejects
       /\ (Finishes /\ C8_Scenario) =>
            (/\ result = PendingFetchResult
             /\ \A x \in SeqToSet(body[cur].kws) :
                    kw'[x] = [kw[x] EXCEPT !.rank_status = "failed"]
             /\ qstate'[cur] = "deleted"
             /\ hist'[cur].status = "failed"
             /\ hist'[cur].error_code = "JOB_REJECTED"
             /\ hist'[cur].error_details = "PENDING_FETCH_STATUS")]_vars

(* the scenario has run to its end *)
C8_Witness ==
    /\ pc = "ret"
    /\ path = "rejected"
    /\ body[last].type = "full_rank"
    /\ Len(body[last].kws) = 2
    /\ Cardinality({x \in Keywords : kw[x].fetch_status = "pending"}) = 1
    /\ \A x \in Keywords : kw[x].rank_status = "failed"
    /\ qstate[last] = "deleted"
    /\ hist[last].error_details = "PENDING_FETCH_STATUS"

(* C9: outside the call of the router, and so when _process_message has    *)
(* returned, no Visibility Extender is running.                            *)
C9_ExtenderStopped ==
    pc \notin {"router", "items", "finish"} => ext # "running"

(* an extender was started and has been stopped at the return              *)
C9_Witness ==
    /\ pc = "ret"
    /\ ext = "stopped"
    /\ path \in {"completed", "rejected", "retry"}

(* C10: once running is false no message enters _process_message, every    *)
(* message left in the batch goes back to the queue visible instead, the   *)
(* poll loop receives nothing more, and the loop is eventually left.       *)
C10_Shutdown ==
    /\ [][~running =>
            /\ cur = NoMsg => (cur' = NoMsg /\ runs' = runs)
            /\ (batch # <<>> /\ batch' # batch) =>
                 (/\ batch' = Tail(batch)
                  /\ qstate'[Head(batch).msg] = "visible")
            /\ batch = <<>> => batch' = <<>>
            /\ pc = "poll" => pc' \in {"poll", "stopped"}]_vars
    /\ ~running ~> (pc = "stopped")

(* shutdown arrived between the receive and the for loop: the one         *)
(* delivery of the message was the consumer's, and the message is back in  *)
(* the queue, visible and unprocessed                                      *)
C10_Witness ==
    /\ ~running
    /\ pc = "loop"
    /\ batch = <<>>
    /\ \E m \in Msgs :
         /\ rc[m] = 1
         /\ qstate[m] = "visible"
         /\ hist[m].exists
         /\ hist[m].status = "queued"
         /\ runs[m] = 0

(* C11: an extension call that raises leaves the extender thread in its    *)
(* loop, waiting for the next interval with the flag still set, and        *)
(* changes nothing of the consumer, the job, the queue or the tables; a    *)
(* new extension call is begun only while the flag is set, and the thread  *)
(* leaves its loop only once stop() has cleared the flag.                  *)
C11_ExtensionFailureCaught ==
    [][/\ (epc = "wait" /\ extFail' = extFail + 1) =>
            (/\ epc' = "wait"
             /\ ext' = "running"
             /\ UNCHANGED <<pc, cur, curRc, result, running, batch, todo, runs,
                            qstate, rc, hist, kw, serp>>)
       /\ extFail' > extFail => ext = "running"
       /\ (epc # "none" /\ epc' = "none") => ext' # "running"]_vars

(* an extension call has raised and the extender is in its loop, the flag  *)
(* set, while the job is still being processed                             *)
C11_Witness ==
    /\ ext = "running"
    /\ epc = "wait"
    /\ extFail >= 1
    /\ pc = "items"

(* the consumer is inside _process_message *)
InProcessMessage == pc \in {"msg", "router", "items", "finish"}

(* C12: whatever the router's outcome and whatever is raised while a       *)
(* message is handled, _process_message returns to the for loop with the   *)
(* consumer still running as before, the poll loop is left only after the  *)
(* shutdown signal, and a message being processed always leads back to the *)
(* for loop.                                                               *)
C12_LoopSurvives ==
    /\ [][/\ Returns => (pc' = "ret" /\ running' = running)
          /\ (pc # "stopped" /\ pc' = "stopped") => (~running /\ pc = "poll")]_vars
    /\ InProcessMessage ~> (pc = "loop")

(* an exception inside the processor was turned into a result, and the     *)
(* consumer, still running, is back from _process_message                  *)
C12_Witness ==
    /\ pc = "ret"
    /\ running
    /\ path = "retry"
    /\ result.reason = "Exception"

(* what a cancel that found the row e must do *)
CancelContract(h, h2, e) ==
    /\ cancel_accepted(h, e) <=> h[e].status \in {"queued", "processing"}
    /\ cancel_accepted(h, e) => h2 = [h EXCEPT ![e].status = "cancelled"]
    /\ ~cancel_accepted(h, e) => h2 = h

UpsertCounts == {0, 1, MaxReceive}
UpsertJobs == {NoJob} \cup Msgs
UpsertTypes == {"none", "fetch", "partial_rank", "full_rank", "fetch_and_rank"}
UpsertKwCounts == {NoCount, 0, MaxReceive}

(* the rows r and r2 differ at most in the receive counter *)
SameButReceiveCount(r, r2) == r2 = [r EXCEPT !.receive_count = r2.receive_count]

(* C14: on every history table the system reaches, an upsert with incoming *)
(* QUEUED over a row that is PROCESSING or COMPLETED, whatever its other   *)
(* arguments, leaves the status and every other field of the row as they   *)
(* are, the receive counter apart, and leaves every other row alone; so    *)
(* does the monitor when it logs such a message as QUEUED.                 *)
C14_UpsertGuard ==
    /\ [](\A m \in Msgs :
            (hist[m].exists /\ hist[m].status \in {"processing", "completed"}) =>
               \A c \in UpsertCounts, j \in UpsertJobs, t \in UpsertTypes,
                  k \in UpsertKwCounts :
                  LET h2 == create_or_update(hist, m, "queued", c, j, t, k)
                  IN  /\ SameButReceiveCount(hist[m], h2[m])
                      /\ h2[m].receive_count = NextReceiveCount(hist[m], c)
                      /\ \A n \in Msgs \ {m} : h2[n] = hist[n])
    /\ [][\A m \in Msgs :
            (MonitorLog(m, FALSE) /\ hist[m].exists
               /\ hist[m].status \in {"processing", "completed"}) =>
                SameButReceiveCount(hist[m], hist'[m])]_vars

(* a message without a row was taken up by the consumer, which created the *)
(* PROCESSING row; its window ran out and the monitor logged it as QUEUED:  *)
(* the row is still PROCESSING and only its counter moved                  *)
C14_Witness ==
    /\ pc = "items"
    /\ hist[cur].status = "processing"
    /\ qstate[cur] = "visible"
    /\ rc[cur] = 2
    /\ hist[cur].receive_count = 1

(* the (existing, incoming) pairs the upsert does not write *)
GuardedPair(existing_status, status) ==
    status = "queued" /\ existing_status \in {"processing", "completed"}

(* C15: on every history table the system reaches, an upsert over an       *)
(* existing row stores the incoming status, QUEUED over FAILED included,   *)
(* for every pair of statuses other than QUEUED over PROCESSING and QUEUED *)
(* over COMPLETED; so do the monitor's logging and the consumer's          *)
(* PROCESSING upsert.                                                      *)
C15_UpsertOverwrites ==
    /\ [](\A m \in Msgs :
            hist[m].exists =>
               \A st \in MessageStatus, c \in {0, 1}, j \in UpsertJobs,
                  k \in {NoCount, 0} :
                  ~GuardedPair(hist[m].status, st) =>
                      create_or_update(hist, m, st, c, j, "none", k)[m].status = st)
    /\ [][\A m \in Msgs :
            /\ (MonitorLog(m, FALSE) /\ hist[m].exists
                  /\ ~GuardedPair(hist[m].status, "queued")) =>
                   hist'[m].status = "queued"
            /\ (MonitorLog(m, TRUE) /\ hist[m].exists) =>
                   hist'[m].status = "processing"
            /\ (pc = "msg" /\ pc' = "router" /\ cur = m) =>
                   hist'[m].status = "processing"]_vars

(* a job failed and was left for redelivery; the monitor then logged the   *)
(* message as QUEUED: the row is QUEUED again, the failure's error code    *)
(* still on it                                                             *)
C15_Witness ==
    \E m \in Msgs :
        /\ hist[m].status = "queued"
        /\ hist[m].error_code = "PROCESS_FAILED"
        /\ qstate[m] = "visible"

(* place of a status in the lifecycle: queued, then processing, then the   *)
(* statuses that end it                                                    *)
LifecycleRank(status) ==
    CASE status = "queued" -> 1
      [] status = "processing" -> 2
      [] OTHER -> 3

(* a change of status the lifecycle allows: not backward, or the retry     *)
(* FAILED to QUEUED                                                        *)
MonotonicStep(old, new) ==
    \/ LifecycleRank(new) >= LifecycleRank(old)
    \/ (old = "failed" /\ new = "queued")

(* C16: over every step of the producer, the consumer, the cancel endpoint *)
(* and the monitor, the history row of a message identifier stays the one  *)
(* row of that identifier and its status does not move backward in the     *)
(* lifecycle, the retry FAILED to QUEUED excepted (a duplicate delivery    *)
(* that writes no status is no move).                                      *)
C16_StatusMonotonic ==
    [][\A m \in Msgs :
          hist[m].exists =>
             /\ hist'[m].exists
             /\ MonotonicStep(hist[m].status, hist'[m].status)]_vars

(***************************************************************************)
(* SQSMessageHistoryRepository.create_or_update called by two workers at   *)
(* once, step by step: the query, then the update of the row found or the  *)
(* insert of a new row, each committed on its own.                         *)
(***************************************************************************)
systemVars == <<qstate, rc, body, hist, kw, serp, consumerVars, itemVars>>

UpsertArgs == [m : Msgs, status : MessageStatus, sqs_receive_count : {0, 1}]

(* the rows of message id m, by place in the table *)
RowsOf(t, m) == {i \in DOMAIN t : t[i].sqs_message_id = m}

(* unique=True on sqs_message_id: a commit of a second row of m is refused *)
UniqueViolation(t, m) == RowsOf(t, m) # {}

(* query(...).first() *)
first_row(t, m) == CHOOSE i \in RowsOf(t, m) : \A j \in RowsOf(t, m) : i <= j

(* the row a call writes, given the row its query found or NoRec *)
UpsertRow(existing, a) ==
    create_or_update([n \in Msgs |-> existing], a.m, a.status, a.sqs_receive_count,
                     NoJob, "none", NoCount)[a.m]

(* an IntegrityError that is not caught *)
OnIntegrityErrorRaising == "raised"

(* except IntegrityError: rollback, then the recursive call, which begins  *)
(* with its query                                                          *)
OnIntegrityError == "query"

UpsertCall(w, a) ==
    /\ wpc[w] = "idle"
    /\ wpath[w] = "none"
    /\ wargs' = [wargs EXCEPT ![w] = a]
    /\ wpc' = [wpc EXCEPT ![w] = "query"]
    /\ UNCHANGED <<rows, wpath>>
    /\ UNCHANGED <<systemVars, unitVars>>

UpsertQuery(w) ==
    /\ wpc[w] = "query"
    /\ wpc' = [wpc EXCEPT ![w] = IF RowsOf(rows, wargs[w].m) # {} THEN "update" ELSE "insert"]
    /\ UNCHANGED <<rows, wargs, wpath>>
    /\ UNCHANGED <<systemVars, unitVars>>

(* the if branch: the row found is written and committed *)
UpsertUpdate(w) ==
    /\ wpc[w] = "update"
    /\ LET i == first_row(rows, wargs[w].m)
       IN  rows' = [rows EXCEPT ![i].rec = UpsertRow(rows[i].rec, wargs[w])]
    /\ wpc' = [wpc EXCEPT ![w] = "done"]
    /\ wpath' = [wpath EXCEPT ![w] = IF @ = "retried" THEN @ ELSE "updated"]
    /\ UNCHANGED wargs
    /\ UNCHANGED <<systemVars, unitVars>>

(* the else branch: add and commit; the commit of a second row of the same *)
(* message id raises IntegrityError                                        *)
UpsertInsert(w) ==
    /\ wpc[w] = "insert"
    /\ IF UniqueViolation(rows, wargs[w].m)
       THEN /\ wpc' = [wpc EXCEPT ![w] = OnIntegrityError]
            /\ wpath' = [wpath EXCEPT ![w] = "retried"]
            /\ UNCHANGED rows
       ELSE /\ rows' = Append(rows, [sqs_message_id |-> wargs[w].m,
                                     rec |-> UpsertRow(NoRec, wargs[w])])
            /\ wpc' = [wpc EXCEPT ![w] = "done"]
            /\ wpath' = [wpath EXCEPT ![w] = "created"]
    /\ UNCHANGED wargs
    /\ UNCHANGED <<systemVars, unitVars>>

UpsertNext ==
    \E w \in Workers :
        \/ \E a \in UpsertArgs : UpsertCall(w, a)
        \/ UpsertQuery(w)
        \/ UpsertUpdate(w)
        \/ UpsertInsert(w)

UpsertSpec == Init /\ [][UpsertNext]_vars

(* both calls have returned, and both had found no row at their query *)
BothSawNoRow ==
    /\ \A w \in Workers : wpc[w] = "done"
    /\ \A w \in Workers : wpath[w] \in {"created", "retried"}

(* C17: no create_or_update call raises to its caller and no message id    *)
(* has two rows; when two concurrent calls for one message id both found   *)
(* no row, there is one row afterwards, created by one call, and the other *)
(* call, refused by the unique index, has ended as an update of that row.  *)
C17_RaceResolved ==
    /\ \A w \in Workers : wpc[w] # "raised"
    /\ \A m \in Msgs : Cardinality(RowsOf(rows, m)) <= 1
    /\ BothSawNoRow =>
         \E win \in Workers, lose \in Workers :
             /\ win # lose
             /\ wargs[win].m = wargs[lose].m
             /\ wpath[win] = "created"
             /\ wpath[lose] = "retried"
             /\ Len(rows) = 1
             /\ rows[1].rec = UpsertRow(UpsertRow(NoRec, wargs[win]), wargs[lose])

(* two calls have raced: worker 2 lost, and its status is on the row       *)
C17_Witness ==
    /\ BothSawNoRow
    /\ wpath[2] = "retried"
    /\ wargs[1].status = "processing"
    /\ wargs[2].status = "failed"
    /\ Len(rows) = 1
    /\ rows[1].rec.status = "failed"

(* the gate reports the job cancelled at this step: at an item boundary of *)
(* run_fetch, run_rank or run_partial_rank, or at a sub-result inside an   *)
(* item of a rank flow                                                     *)
GateReports ==
    /\ pc = "items"
    /\ todo # <<>>
    /\ is_job_cancelled(hist, cur)
    /\ todo' # todo

(* C18: at the step where the Cancellation Gate reports the job cancelled, *)
(* in the fetch, full-rank and partial-rank flows, the item in flight and  *)
(* every item not yet started get the phase status PENDING, and every      *)
(* other item keeps the status it has.                                     *)
C18_CancelResets ==
    [][GateReports =>
         LET field == StatusField(body[cur].type)
         IN  /\ \A x \in SeqToSet(todo) : kw'[x][field] = "pending"
             /\ \A x \in Keywords \ SeqToSet(todo) : kw'[x] = kw[x]]_vars

(* _process_message ends a job whose cancel was accepted while one of its  *)
(* items was mid-processing                                                *)
CancelledJobEnds ==
    /\ pc = "finish"
    /\ pc' = "ret"
    /\ cancelAt # 0

(* C19: when a job was cancelled while one of its items was mid-processing *)
(* and _process_message ends, the message is deleted from the queue, its   *)
(* history row has status DELETED, and no failure code is on the row.      *)
C19_CancelledEndsDeleted ==
    [][CancelledJobEnds =>
         /\ qstate'[cur] = "deleted"
         /\ hist'[cur].status = "deleted"
         /\ hist'[cur].error_code = "none"]_vars

(* the keywords of a job's list from keyword k on *)
FromItem(ids, k) ==
    {ids[j] : j \in {i \in 1 .. Len(ids) : \E n \in 1 .. i : ids[n] = k}}

(* C20: when a rank job was cancelled while one of its items was           *)
(* mid-processing (item 2 of 5 in the scenario) and _process_message ends, *)
(* that item and the items after it have the phase status they had when    *)
(* the job started, and no sub-result of that item carries a ranking it    *)
(* did not have when the job started.                                      *)
C20_CancelLeavesNoTrace ==
    [][(CancelledJobEnds /\ body[cur].type \in {"partial_rank", "full_rank"}) =>
         LET field == StatusField(body[cur].type)
         IN  /\ \A x \in FromItem(body[cur].kws, cancelAt) :
                    kw'[x][field] = pre.kw[x][field]
             /\ \A i \in 1 .. Len(serp'[cancelAt]) :
                    serp'[cancelAt][i] \in {"success", "partial"} =>
                        serp'[cancelAt][i] = pre.serp[cancelAt][i]]_vars

(* the consumer takes a step inside an item of a rank flow *)
StepInsideItem ==
    /\ pc = "items"
    /\ sub >= 1
    /\ <<sub, todo>>' # <<sub, todo>>

C22_Original ==
    [][kw' # kw => pc = "items"]_vars

(* keyword x is named by the message in hand *)
Referenced(x) == cur # NoMsg /\ ~body[cur].kwsNull /\ x \in SeqToSet(body[cur].kws)

(* C22: a keyword's phase statuses are written only for keywords the       *)
(* message in hand names: by the Ranking Pipeline while it processes the   *)
(* job, and by the consumer's _fail_keywords, which writes nothing but     *)
(* FAILED in the phase of the job's type, when the receive count is over   *)
(* the ceiling, when the job has failed, or in the handler of an           *)
(* unexpected exception; a failed fetch, partial_rank or full_rank job     *)
(* has every keyword it names marked so when _process_message returns.     *)
C22_StatusWriters ==
    [][/\ \A x \in Keywords :
            kw'[x] # kw[x] =>
               /\ Referenced(x)
               /\ pc \in {"items", "msg", "finish"}
               /\ pc # "items" =>
                    kw'[x] = [kw[x] EXCEPT ![StatusField(body[cur].type)] = "failed"]
       /\ (pc = "finish" /\ pc' = "ret" /\ ~result.success
             /\ StatusField(body[cur].type) # "none") =>
            \A x \in SeqToSet(body[cur].kws) :
                kw'[x][StatusField(body[cur].type)] = "failed"]_vars

(* a message came in over the retry ceiling without the pipeline ever      *)
(* having run for it: the consumer has marked its keywords failed          *)
C22_Witness ==
    /\ pc = "ret"
    /\ path = "max_retries"
    /\ runs[last] = 0
    /\ body[last].type = "fetch"
    /\ kw[1].fetch_status = "failed"
    /\ 1 \in SeqToSet(body[last].kws)

(* C23: when run_fetch has gone through all its keywords without the gate  *)
(* reporting a cancellation, every keyword it processed has fetch status   *)
(* SUCCESS or FAILED, and none is left in PROCESSING.                      *)
C23_FetchEndsSettled ==
    [][(pc = "items" /\ todo = <<>> /\ pc' = "finish" /\ body[cur].type = "fetch") =>
         \A x \in SeqToSet(body[cur].kws) :
             kw'[x].fetch_status \in {"success", "failed"}]_vars

(***************************************************************************)
(* The sub-result pass of the rank flows on its own: run_rank or           *)
(* run_partial_rank has filtered its keywords and stands before the first  *)
(* one.  The sub-results of the first keyword are as earlier runs, ended   *)
(* or killed, may have left them; every other keyword has one sub-result,  *)
(* PENDING.  The pass records what it attempts, and                        *)
(* the hard timeout of the full rank flow and the worker it leaves behind  *)
(* are steps of their own.  In Spec the turn that times out is             *)
(* RankSub("failed"), which is what the main flow writes.                  *)
(***************************************************************************)
PassLen == 2

(* the statuses the code writes to a sub-result *)
SubStatuses == {"pending", "processing", "failed", "success", "partial"}

(* keyword_ids of the message, in the order the sender gave *)
PassLists == KwLists \cup {<<2, 1>>}

RankBody(t, ids) == MkBody("object", t, ids, FALSE, TRUE)

(* the keyword table before the pass: all fetched, the second keyword     *)
(* maybe ranked already                                                    *)
PassKeywords(t, done) ==
    [k \in Keywords |->
        IF done /\ k = 2
        THEN [FetchedKeyword EXCEPT ![StatusField(t)] = "success"]
        ELSE FetchedKeyword]

PassInit ==
    \E t \in {"partial_rank", "full_rank"}, ids \in PassLists, done \in BOOLEAN,
       s \in [1 .. PassLen -> SubStatuses] :
        /\ qstate = [m \in Msgs |-> "inflight"]
        /\ rc = [m \in Msgs |-> 1]
        /\ body = [m \in Msgs |-> RankBody(t, ids)]
        /\ hist = update_message_history(
                      create_or_update([m \in Msgs |-> NoRec], 1, "queued", 0, 1,
                                       MessageTypeEnum(t), NoCount),
                      1, "processing", "none", "none", 1, 1, t)
        /\ kw = PassKeywords(t, done)
        /\ serp = [k \in Keywords |->
                     IF k = 1 THEN s ELSE <<"pending">>]
        /\ running = TRUE
        /\ pc = "items"
        /\ batch = <<>>
        /\ cur = 1
        /\ curRc = 1
        /\ todo = keywords_to_process(PassKeywords(t, done), ids, StatusField(t))
        /\ result = NoResult
        /\ ext = IF NeedsExtender(ids, t) THEN "running" ELSE "none"
        /\ runs = [m \in Msgs |-> 1]
        /\ path = "none"
        /\ last = NoMsg
        /\ epc = IF NeedsExtender(ids, t) THEN "wait" ELSE "none"
        /\ extFail = 0
        /\ rows = <<>>
        /\ wpc = [w \in Workers |-> "idle"]
        /\ wargs = [w \in Workers |-> NoArgs]
        /\ wpath = [w \in Workers |-> "none"]
        /\ sub = 0
        /\ pre = [kw |-> kw, serp |-> serp]
        /\ cancelAt = 0
        /\ driver = 0
        /\ zombie = {}
        /\ trail = <<>>
        /\ call = NoCall
        /\ consecutive_errors = 0
        /\ timer = NoTimer

(* SeleniumService.reset_driver without effect *)
reset_driver_skipped(d) == d

(* SeleniumService.reset_driver: the driver is quit and a new one created *)
reset_driver(d) == d + 1

(* one turn of the sub-result loop whose work ends in time: the sub-result *)
(* is ranked, or marked failed by _process_serp / _process_serp_partial    *)
PassSub(out) ==
    /\ ~check_cancellation_and_raise(hist, cur)
    /\ RankSubStep(out)
    /\ trail' = Append(trail, <<Head(todo), sub, FALSE>>)
    /\ UNCHANGED <<driver, zombie>>

(* one turn of the loop of _process_keyword_for_rank whose worker is still *)
(* alive after join(timeout): TimeoutError, reset_driver, the sub-result   *)
(* marked FAILED, and the loop goes on; the worker thread is left running  *)
PassTimeout ==
    /\ body[cur].type = "full_rank"
    /\ ~check_cancellation_and_raise(hist, cur)
    /\ RankSubStep("failed")
    /\ driver' = reset_driver(driver)
    /\ zombie' = zombie \cup {<<Head(todo), sub>>}
    /\ trail' = Append(trail, <<Head(todo), sub, TRUE>>)

(* one turn of the loop of _process_keyword_for_partial_rank whose work    *)
(* takes longer than the 240 s of the full rank flow: the loop calls       *)
(* _process_serp_partial directly and waits for it                         *)
PassSlow(out) ==
    /\ body[cur].type = "partial_rank"
    /\ ~check_cancellation_and_raise(hist, cur)
    /\ RankSubStep(out)
    /\ trail' = Append(trail, <<Head(todo), sub, TRUE>>)
    /\ UNCHANGED <<driver, zombie>>

(* a worker left behind comes to the end of _process_serp: it writes       *)
(* SUCCESS with the rank data, or FAILED                                   *)
ZombieWrite(z, out) ==
    /\ z \in zombie
    /\ out \in {"success", "failed"}
    /\ serp' = [serp EXCEPT ![z[1]][z[2]] = out]
    /\ zombie' = zombie \ {z}
    /\ UNCHANGED <<qstate, rc, body, hist, kw, running, pc, batch, cur, curRc, todo,
                   result, ext, runs, path, last>>
    /\ UNCHANGED <<extVars, upsertVars, itemVars, driver, trail, call, loopVars>>

PassNext ==
    \/ \E raised \in BOOLEAN : RankItem(raised)
    \/ \E out \in StatusConst : PassSub(out)
    \/ PassTimeout
    \/ \E out \in StatusConst : PassSlow(out)
    \/ \E z \in Keywords \X (1 .. PassLen), out \in StatusConst : ZombieWrite(z, out)

PassSpec == PassInit /\ [][PassNext]_vars

(* the sub-results attempted so far, without the note on their duration *)
Attempted == {<<trail[n][1], trail[n][2]>> : n \in 1 .. Len(trail)}

(* keyword k of the job has been through its item *)
ItemOver(k) ==
    /\ k \in SeqToSet(body[cur].kws)
    /\ k \notin SeqToSet(todo)

(* the pass resets the FAILED sub-results of the item it starts and        *)
(* attempts, once each, the sub-results whose status before the pass was   *)
(* in A, of the keywords not yet ranked; an item whose work raised before  *)
(* its first sub-result attempts none                                      *)
AttemptsExactly(A) ==
    /\ \A n, o \in 1 .. Len(trail) :
          (trail[n][1] = trail[o][1] /\ trail[n][2] = trail[o][2]) => n = o
    /\ \A z \in Attempted :
          /\ pre.kw[z[1]][StatusField(body[cur].type)] # "success"
          /\ pre.serp[z[1]][z[2]] \in A
    /\ \A k \in Keywords :
          (/\ ItemOver(k)
           /\ pre.kw[k][StatusField(body[cur].type)] # "success"
           /\ \/ kw[k][StatusField(body[cur].type)] = "success"
              \/ \E z \in Attempted : z[1] = k) =>
             \A i \in 1 .. Len(pre.serp[k]) :
                 pre.serp[k][i] \in A => <<k, i>> \in Attempted
    /\ (sub >= 1) =>
          \A i \in 1 .. sub - 1 :
              pre.serp[Head(todo)][i] \in A => <<Head(todo), i>> \in Attempted

(* the item of Head(todo) starts or ends in this step *)
ItemStarts == pc = "items" /\ sub = 0 /\ todo # <<>> /\ <<sub, todo>>' # <<sub, todo>>

ResetsFailed ==
    ItemStarts => serp'[Head(todo)] = update_failed_to_pending(serp[Head(todo)])

LateTurn == trail' # trail /\ trail'[Len(trail')][3]

(* the sub-result of the turn is FAILED, the driver has been reset and the *)
(* loop is at the item's next sub-result, or past its last one             *)
TimeoutHandled ==
    LET k == Head(todo) IN
    /\ serp'[k][sub] = "failed"
    /\ driver' = driver + 1
    /\ pc' = "items"
    /\ IF NextSub(serp'[k], sub + 1) # 0
       THEN sub' = NextSub(serp'[k], sub + 1) /\ todo' = todo
       ELSE sub' = 0 /\ todo' = Tail(todo)

(* C25 as stated: in the rank flow, full or partial, a sub-result whose    *)
(* work is not finished within 240 s is marked FAILED, the page fetcher is *)
(* reset and the loop goes on with the next sub-result.                    *)
C25_Original ==
    [][LateTurn => TimeoutHandled]_vars

(* C25: in the full rank flow a sub-result whose work is not finished      *)
(* within 240 s is marked FAILED, the page fetcher is reset and the loop   *)
(* goes on with the item's next sub-result.  The partial rank flow has no  *)
(* timeout: it waits for the work, resets nothing and stores the work's    *)
(* own outcome.                                                            *)
C25_TimeoutInFullRank ==
    [][LateTurn =>
         IF body[cur].type = "full_rank"
         THEN TimeoutHandled
         ELSE /\ driver' = driver
              /\ zombie' = zombie
              /\ serp'[Head(todo)][sub] \in {"partial", "failed"}]_vars

(* the first sub-result of a full rank item has timed out: it is FAILED,   *)
(* the driver has been reset once and the loop is at the second one        *)
C25_Witness ==
    /\ body[cur].type = "full_rank"
    /\ pc = "items"
    /\ todo # <<>>
    /\ Head(todo) = 1
    /\ sub = 2
    /\ trail = <<<<1, 1, TRUE>>>>
    /\ serp[1][1] = "failed"
    /\ driver = 1

MaxTotal == 9
MaxMetrics == 3

RankLabels == <<"A", "B", "C", "D">>
NoLabel == "none"
ThresholdValues == {0, 30, 60}
Weights == {-10, 10, 30, 60}

(* a default that is one of the configured labels *)
default_rank_configured == "C"

(* RankConst.D_RANK *)
default_rank == "D"

(* a ScoreThresholdOut: numeric is FALSE for a value float() refuses or    *)
(* turns into NaN                                                          *)
Metric(l, v, n) == [label |-> l, value |-> v, numeric |-> n]

Metrics ==
    {Metric(l, v, TRUE) : l \in {"A", "B", "C"}, v \in ThresholdValues}
      \cup {Metric(l, 0, FALSE) : l \in {"A", "B", "C"}}
      \cup {Metric(NoLabel, 0, TRUE)}

(* the thresholds of test_determine_rank_basic_matching *)
BasicThresholds == <<Metric("A", 80, TRUE), Metric("B", 60, TRUE), Metric("C", 40, TRUE)>>

(* the thresholds of test_determine_rank_negative_thresholds without D *)
NegativeThresholds == <<Metric("A", 50, TRUE), Metric("B", 0, TRUE), Metric("C", -25, TRUE)>>

(* _get_metric_value: the first metric of that label *)
get_metric_value(metrics, label) ==
    metrics[CHOOSE i \in DOMAIN metrics :
               /\ metrics[i].label = label
               /\ \A j \in DOMAIN metrics : metrics[j].label = label => i <= j]

(* the loop that builds the (label, threshold) pairs, from metric i on *)
RECURSIVE build_labels(_, _, _)
build_labels(metrics, i, labels) ==
    IF i > Len(metrics) THEN labels
    ELSE LET label == metrics[i].label
             thr_raw == get_metric_value(metrics, label)
         IN  IF label = NoLabel \/ ~thr_raw.numeric
                \/ \E n \in DOMAIN labels : labels[n].label = label
             THEN build_labels(metrics, i + 1, labels)
             ELSE build_labels(metrics, i + 1,
                               Append(labels, [label |-> label, thr |-> thr_raw.value]))

(* str order of the labels *)
LabelOrd(l) == CHOOSE n \in DOMAIN RankLabels : RankLabels[n] = l

(* a sort key with the label descending on equal thresholds *)
key_before_label_desc(p, q) ==
    \/ p.thr > q.thr
    \/ p.thr = q.thr /\ LabelOrd(p.label) > LabelOrd(q.label)

(* the sort key (-threshold, label): p comes before q *)
key_before(p, q) ==
    \/ p.thr > q.thr
    \/ p.thr = q.thr /\ LabelOrd(p.label) < LabelOrd(q.label)

(* labels.sort(key=...) on pairs of distinct labels *)
RECURSIVE sort_labels(_)
sort_labels(P) ==
    IF P = {} THEN <<>>
    ELSE LET f == CHOOSE p \in P : \A q \in P \ {p} : key_before(p, q)
         IN  <<f>> \o sort_labels(P \ {f})

(* rank assignment that scans the pairs in the order they are listed *)
determine_rank_unsorted(weight, score_thresholds) ==
    LET labels == build_labels(score_thresholds, 1, <<>>)
        met == {n \in DOMAIN labels : weight >= labels[n].thr}
    IN  IF met = {} THEN default_rank
        ELSE labels[CHOOSE n \in met : \A o \in met : n <= o].label

(* KeywordService._determine_rank *)
determine_rank(weight, score_thresholds) ==
    IF score_thresholds = <<>> THEN default_rank
    ELSE LET labels == build_labels(score_thresholds, 1, <<>>)
             sorted == sort_labels(SeqToSet(labels))
             met == {n \in DOMAIN sorted : weight >= sorted[n].thr}
         IN  IF labels = <<>> THEN default_rank
             ELSE IF met = {} THEN default_rank
             ELSE sorted[CHOOSE n \in met : \A o \in met : n <= o].label

FinalStatusCalls ==
    {[NoCall EXCEPT !.fn = "FinalStatus", !.failed_count = f, !.total_count = t] :
        f \in 0 .. MaxTotal, t \in 0 .. MaxTotal}

DetermineRankCalls ==
    {[NoCall EXCEPT !.fn = "_determine_rank", !.weight = w, !.score_thresholds = m] :
        w \in Weights,
        m \in UNION {[1 .. n -> Metrics] : n \in 0 .. MaxMetrics} \cup {NegativeThresholds}}
      \cup {[NoCall EXCEPT !.fn = "_determine_rank", !.weight = w,
                           !.score_thresholds = BasicThresholds] : w \in {20, 30}}

(* amounts this far on either side of each tier boundary *)
PriceSpread == 3

TierBounds == {0, 10000, 30000, 60000, 100000}

(* the four amounts of the specification's example *)
ExampleAmounts == {99999, 100000, 59999, 9999}

Amounts ==
    {b + d : b \in TierBounds, d \in (0 - PriceSpread) .. PriceSpread} \cup ExampleAmounts

(* a tier function without the 7.5 tier *)
service_price_four_tiers(yen) ==
    IF yen >= 100000 THEN "10.0"
    ELSE IF 30000 <= yen /\ yen <= 99999 THEN "5.0"
    ELSE IF 10000 <= yen /\ yen <= 29999 THEN "2.5"
    ELSE "0.0"

(* a tier function whose top tier starts above 100,000 *)
service_price_exclusive(yen) ==
    IF yen > 100000 THEN "10.0"
    ELSE IF 60000 <= yen /\ yen <= 99999 THEN "7.5"
    ELSE IF 30000 <= yen /\ yen <= 59999 THEN "5.0"
    ELSE IF 10000 <= yen /\ yen <= 29999 THEN "2.5"
    ELSE "0.0"

(* KeywordService._service_price, the float it returns written out *)
service_price(yen) ==
    IF yen >= 100000 THEN "10.0"
    ELSE IF 60000 <= yen /\ yen <= 99999 THEN "7.5"
    ELSE IF 30000 <= yen /\ yen <= 59999 THEN "5.0"
    ELSE IF 10000 <= yen /\ yen <= 29999 THEN "2.5"
    ELSE "0.0"

ServicePriceCalls ==
    {[NoCall EXCEPT !.fn = "_service_price", !.yen = y] : y \in Amounts}

CallInit ==
    /\ SystemInit
    /\ kw = [k \in Keywords |-> NewKeyword]
    /\ driver = 0
    /\ zombie = {}
    /\ trail = <<>>
    /\ consecutive_errors = 0
    /\ timer = NoTimer
    /\ call \in {c \in FinalStatusCalls : c.failed_count <= c.total_count}
                  \cup DetermineRankCalls \cup ServicePriceCalls

CallFinalStatus ==
    /\ call.fn = "FinalStatus"
    /\ call.ret = "none"
    /\ call' = [call EXCEPT !.ret = FinalStatus(call.failed_count, call.total_count)]
    /\ UNCHANGED <<systemVars, upsertVars, passVars, loopVars>>

CallDetermineRank ==
    /\ call.fn = "_determine_rank"
    /\ call.ret = "none"
    /\ call' = [call EXCEPT !.ret = determine_rank(call.weight, call.score_thresholds)]
    /\ UNCHANGED <<systemVars, upsertVars, passVars, loopVars>>

CallServicePrice ==
    /\ call.fn = "_service_price"
    /\ call.ret = "none"
    /\ call' = [call EXCEPT !.ret = service_price(call.yen)]
    /\ UNCHANGED <<systemVars, upsertVars, passVars, loopVars>>

CallNext ==
    \/ CallFinalStatus
    \/ CallDetermineRank
    \/ CallServicePrice

CallSpec == CallInit /\ [][CallNext]_vars

(* FinalStatus has returned *)
FinalStatusReturned == call.fn = "FinalStatus" /\ call.ret # "none"

(* C27 as stated: FAILED iff failedCount >= ceil(totalCount / 3), for all  *)
(* 0 <= failedCount <= totalCount, totalCount = 0 included.                *)
C27_Original ==
    FinalStatusReturned =>
        (call.ret = "failed" <=> 3 * call.failed_count >= call.total_count)
          /\ call.ret \in {"failed", "success"}

(* C27: for an item with at least one sub-result the final status is       *)
(* FAILED iff failedCount >= ceil(totalCount / 3) and SUCCESS otherwise;   *)
(* for an item without sub-results it is SUCCESS.                          *)
C27_OneThirdRule ==
    FinalStatusReturned =>
        /\ call.ret \in {"failed", "success"}
        /\ call.total_count > 0 =>
             (call.ret = "failed" <=> 3 * call.failed_count >= call.total_count)
        /\ call.total_count = 0 => call.ret = "success"

(* 3 failures of 9 sub-results have given FAILED *)
C27_Witness ==
    /\ FinalStatusReturned
    /\ call.total_count = 9
    /\ call.failed_count = 3
    /\ call.ret = "failed"

(* place of keyword k in the message *)
PlaceOf(k) == CHOOSE n \in DOMAIN body[cur].kws : body[cur].kws[n] = k

(* attempt y comes before attempt z in message order and position order *)
InOrder(y, z) ==
    \/ PlaceOf(y[1]) < PlaceOf(z[1])
    \/ y[1] = z[1] /\ y[2] < z[2]

(* the attempts so far were made in message order and position order; the  *)
(* keywords still to come are the tail of the message's keywords that are  *)
(* not ranked; each sub-result before an attempted one was attempted       *)
(* before it or skipped as SUCCESS                                         *)
ProcessedInOrder ==
    LET full == keywords_to_process(pre.kw, body[cur].kws, StatusField(body[cur].type))
    IN  /\ \A n, o \in 1 .. Len(trail) : n < o => InOrder(trail[n], trail[o])
        /\ \E n \in 0 .. Len(full) : todo = SubSeq(full, n + 1, Len(full))
        /\ \A z \in Attempted : z[1] \notin SeqToSet(todo) \/ z[1] = Head(todo)
        /\ \A n \in 1 .. Len(trail) : \A i \in 1 .. trail[n][2] - 1 :
              \/ pre.serp[trail[n][1]][i] = "success"
              \/ \E o \in 1 .. n - 1 : trail[o][1] = trail[n][1] /\ trail[o][2] = i

(* C28 as stated: items and sub-results are processed in order, and none   *)
(* starts before every earlier one has finished or been skipped: when a    *)
(* sub-result is attempted no worker of an earlier one is still running.   *)
C28_Original ==
    /\ []ProcessedInOrder
    /\ [][trail' # trail => zombie = {}]_vars

(* C28: target items are processed in the order given in the message and   *)
(* the sub-results of an item in position order; an item or sub-result     *)
(* starts only when the main flow is done with every earlier one: it was   *)
(* processed to its end, skipped, or abandoned on timeout and marked       *)
(* FAILED, its worker possibly still running.                              *)
C28_ProcessedInOrder ==
    /\ []ProcessedInOrder
    /\ [][trail' # trail =>
            \A z \in zombie : \E n \in 1 .. Len(trail) :
                /\ trail[n] = <<z[1], z[2], TRUE>>
                /\ InOrder(z, <<Head(todo), sub>>)]_vars

(* a job for keywords 2 and 1, in that order: the sub-result of keyword 2  *)
(* was attempted first, then the two of keyword 1 by position              *)
C28_Witness ==
    /\ body[cur].kws = <<2, 1>>
    /\ trail = <<<<2, 1, FALSE>>, <<1, 1, FALSE>>, <<1, 2, FALSE>>>>
    /\ todo = <<>>

(* _determine_rank has returned *)
DetermineRankReturned == call.fn = "_determine_rank" /\ call.ret # "none"

(* the valid (label, threshold) pairs of the call *)
ValidPairs == SeqToSet(build_labels(call.score_thresholds, 1, <<>>))

(* C29: the result is the first label, by threshold descending and label   *)
(* ascending, whose threshold is at most the weight; when no threshold is  *)
(* met, the label of the lowest valid threshold; when there is no valid    *)
(* threshold, the default label.                                           *)
C29_RankAssignment ==
    DetermineRankReturned =>
        LET met == {p \in ValidPairs : p.thr <= call.weight}
        IN  IF ValidPairs = {} THEN call.ret = default_rank
            ELSE IF met # {}
            THEN \E p \in met :
                    /\ \A q \in met \ {p} :
                          \/ p.thr > q.thr
                          \/ p.thr = q.thr /\ LabelOrd(p.label) < LabelOrd(q.label)
                    /\ call.ret = p.label
            ELSE \E p \in ValidPairs :
                    /\ \A q \in ValidPairs : p.thr <= q.thr
                    /\ call.ret = p.label

(* the thresholds of the call are the metrics in M, each once, in any order *)
ThresholdsAre(M) ==
    /\ Len(call.score_thresholds) = Cardinality(M)
    /\ SeqToSet(call.score_thresholds) = M

DuplicateThresholds == {Metric("A", 60, TRUE), Metric("B", 60, TRUE), Metric("C", 30, TRUE)}

(* C30 as stated: thresholds {A:60, B:60, C:30} with weight 60 give A, and *)
(* thresholds {A:50, B:0, C:-25} with weight 10 give C.                    *)
C30_Original ==
    DetermineRankReturned =>
        /\ (ThresholdsAre(DuplicateThresholds) /\ call.weight = 60) => call.ret = "A"
        /\ (ThresholdsAre(SeqToSet(NegativeThresholds)) /\ call.weight = 10) =>
              call.ret = "C"

(* C30: thresholds {A:60, B:60, C:30} with weight 60 give A in whatever    *)
(* order they are listed, and thresholds {A:50, B:0, C:-25} with weight 10 *)
(* give B, the first label in descending order whose threshold is met; C   *)
(* is what they give for a weight below 0, such as -10.                    *)
C30_Examples ==
    DetermineRankReturned =>
        /\ (ThresholdsAre(DuplicateThresholds) /\ call.weight = 60) => call.ret = "A"
        /\ (ThresholdsAre(SeqToSet(NegativeThresholds)) /\ call.weight = 10) =>
              call.ret = "B"
        /\ (ThresholdsAre(SeqToSet(NegativeThresholds)) /\ call.weight = -10) =>
              call.ret = "C"

(* thresholds listed as B:60, A:60, C:30 with weight 60 have given A *)
C30_Witness ==
    /\ DetermineRankReturned
    /\ call.score_thresholds =
          <<Metric("B", 60, TRUE), Metric("A", 60, TRUE), Metric("C", 30, TRUE)>>
    /\ call.weight = 60
    /\ call.ret = "A"

Reorderings(s) ==
    {[i \in DOMAIN s |-> s[f[i]]] : f \in Permutations(DOMAIN s)}

(* no label occurs twice in s *)
DistinctLabels(s) ==
    \A i, j \in DOMAIN s : s[i].label = s[j].label => i = j

ValidEntry(m) == m.label # NoLabel /\ m.numeric

ServicePriceReturned == call.fn = "_service_price" /\ call.ret # "none"

(* C34: the price tier of an integer amount is 10 from 100,000 up, 7.5     *)
(* from 60,000 to 99,999, 5 from 30,000 to 59,999, 2.5 from 10,000 to      *)
(* 29,999 and 0 for any other amount.                                      *)
C34_PriceTiers ==
    ServicePriceReturned =>
        /\ call.ret = "10.0" <=> call.yen >= 100000
        /\ call.ret = "7.5" <=> call.yen \in 60000 .. 99999
        /\ call.ret = "5.0" <=> call.yen \in 30000 .. 59999
        /\ call.ret = "2.5" <=> call.yen \in 10000 .. 29999
        /\ call.ret = "0.0" <=> call.yen < 10000
        /\ call.ret \in {"10.0", "7.5", "5.0", "2.5", "0.0"}

(* the amount 60,000, the first of its tier, has given 7.5 *)
C34_Witness ==
    /\ ServicePriceReturned
    /\ call.yen = 60000
    /\ call.ret = "7.5"

(* the tier each example amount is said to get *)
ExampleTier(yen, t) == (ServicePriceReturned /\ call.yen = yen) => call.ret = t

(* C35 as stated: 99,999, 100,000, 59,999 and 9,999 give 5.0, 10.0, 5.0    *)
(* and 0.0.                                                                *)
C35_Original ==
    /\ ExampleTier(99999, "5.0")
    /\ ExampleTier(100000, "10.0")
    /\ ExampleTier(59999, "5.0")
    /\ ExampleTier(9999, "0.0")

(* C35: 99,999, 100,000, 59,999 and 9,999 give 7.5, 10.0, 5.0 and 0.0: the *)
(* top tier includes its boundary 100,000, and 99,999 is the last amount   *)
(* of the tier below it.                                                   *)
C35_Examples ==
    /\ ExampleTier(99999, "7.5")
    /\ ExampleTier(100000, "10.0")
    /\ ExampleTier(59999, "5.0")
    /\ ExampleTier(9999, "0.0")

(* the amount 99,999 has given 7.5 *)
C35_Witness ==
    /\ ServicePriceReturned
    /\ call.yen = 99999
    /\ call.ret = "7.5"

(* C36: a history row that is CANCELLED stays CANCELLED or becomes         *)
(* DELETED: no step of the consumer, the pipeline or the monitor writes    *)
(* another status over it.                                                 *)
C36_CancelledIsFinal ==
    [][\A m \in Msgs :
          (hist[m].exists /\ hist[m].status = "cancelled") =>
             hist'[m].status \in {"cancelled", "deleted"}]_vars

(***************************************************************************)
(* Redelivery after completion: SQSConsumer._delete_message swallows the   *)
(* queue's error, so a finished job's message can stay in the queue.       *)
(***************************************************************************)
(* _delete_message when delete_message raises: logged, nothing deleted *)
delete_message_failed(q, m) == q

(* the end of _process_message when the delete call fails: the history     *)
(* row and the keywords are written as in Finish, the message stays        *)
FinishDeleteFailed ==
    /\ pc = "finish"
    /\ ShouldDelete(result)
    /\ ext' = StopExtender(ext)
    /\ epc' = JoinExtender(epc)
    /\ extFail' = 0
    /\ IF result.success
       THEN /\ hist' = update_message_history(hist, cur, "completed", "none", "none",
                                              0, NoJob, "none")
            /\ UNCHANGED <<kw, serp>>
       ELSE /\ hist' = update_message_history(hist, cur, "failed", result.reason,
                                              "JOB_REJECTED", 0, NoJob, "none")
            /\ kw' = fail_keywords_kw(kw, body[cur].kws, body[cur].type)
            /\ serp' = fail_keywords_serp(serp, body[cur].kws, body[cur].type)
    /\ qstate' = delete_message_failed(qstate, cur)
    /\ Return(IF result.success THEN "completed" ELSE "rejected")
    /\ pre' = NoPre
    /\ cancelAt' = 0
    /\ UNCHANGED <<rc, body, running, batch, curRc, todo, result, runs, sub>>
    /\ UNCHANGED <<upsertVars, unitVars>>

RedeliveryNext ==
    \/ Next
    \/ FinishDeleteFailed

RedeliverySpec == Init /\ [][RedeliveryNext]_vars

(* C37: when a message whose history row is COMPLETED is delivered again,  *)
(* _process_message does not call the Job Router (the message's run count  *)
(* stays) and the row's status stays COMPLETED.                            *)
C37_DuplicateOfCompletedIgnored ==
    [][(pc = "msg" /\ cur # NoMsg /\ hist[cur].exists /\ hist[cur].status = "completed")
          => /\ runs' = runs
             /\ hist'[cur].status = "completed"]_vars

(***************************************************************************)
(* VisibilityExtender._extend_loop with the extension call as a step of    *)
(* its own: the thread tests the running flag, then calls the queue, and   *)
(* stop() joins it for at most five seconds.  One extender thread is       *)
(* followed at a time.                                                     *)
(***************************************************************************)
(* the interval has passed and the flag is still set: the thread enters    *)
(* change_message_visibility                                               *)
ExtendBegin ==
    /\ epc = "wait"
    /\ ext = "running"
    /\ epc' = "call"
    /\ UNCHANGED <<qstate, rc, body, hist, kw, serp, running, pc, batch, cur, curRc,
                   todo, result, ext, runs, path, last, extFail>>
    /\ UNCHANGED <<upsertVars, itemVars, unitVars>>

(* change_message_visibility returns (ok) or raises and is caught; the     *)
(* thread goes back to the while test.  A thread that was in the call when *)
(* stop() joined it is still alive here: JoinExtender leaves it alone      *)
ExtendEnd(ok) ==
    /\ epc = "call"
    /\ ok => \E m \in Msgs : qstate[m] = "inflight"
    /\ ~ok => extFail < MaxExtFail
    /\ epc' = AfterExtension(ok, ext)
    /\ extFail' = IF ok THEN extFail ELSE extFail + 1
    /\ UNCHANGED <<qstate, rc, body, hist, kw, serp, running, pc, batch, cur, curRc,
                   todo, result, ext, runs, path, last>>
    /\ UNCHANGED <<upsertVars, itemVars, unitVars>>

ExtenderNext ==
    \/ Next
    \/ ExtendBegin
    \/ \E ok \in BOOLEAN : ExtendEnd(ok)

ExtenderSpec == Init /\ [][ExtenderNext]_vars

(* the extender thread's call of change_message_visibility completes *)
ExtensionIssued == epc = "call" /\ epc' # "call" /\ ext' = ext /\ pc' = pc

(* C39: once VisibilityExtender.stop has returned (the extender is no      *)
(* longer running), the thread completes no extension call: every          *)
(* extension happens while the extender is running, so none happens after  *)
(* the consumer has deleted the message or left it for redelivery.         *)
C39_NoExtensionAfterStop ==
    [][ExtensionIssued => ext = "running"]_vars

(***************************************************************************)
(* SQSConsumer.start: receive calls that return nothing or raise, and the  *)
(* count of errors that ends the poll loop.                                *)
(***************************************************************************)
(* max_consecutive_errors *)
max_consecutive_errors == 10

(* _receive_messages returns an empty list: the else branch logs and the   *)
(* while loop goes round; consecutive_errors is assigned only under        *)
(* "if messages"                                                           *)
ReceiveEmpty ==
    /\ pc = "poll"
    /\ running
    /\ \A m \in Msgs : qstate[m] # "visible"
    /\ batch' = <<>>
    /\ pc' = "loop"
    /\ UNCHANGED <<qstate, rc, body, hist, kw, serp, running, cur, curRc, todo, result,
                   ext, runs, path, last>>
    /\ UNCHANGED <<extVars, upsertVars, itemVars, unitVars>>

(* _receive_messages raises: the except clause of the loop counts the      *)
(* error, breaks at max_consecutive_errors, otherwise sleeps and goes on   *)
ReceiveFailed ==
    /\ pc = "poll"
    /\ running
    /\ consecutive_errors' = consecutive_errors + 1
    /\ pc' = IF consecutive_errors + 1 >= max_consecutive_errors THEN "stopped" ELSE "poll"
    /\ UNCHANGED <<qstate, rc, body, hist, kw, serp, running, batch, cur, curRc, todo,
                   result, ext, runs, path, last, timer>>
    /\ UNCHANGED <<extVars, upsertVars, itemVars, passVars, call>>

PollNext ==
    \/ Next
    \/ ReceiveEmpty
    \/ ReceiveFailed

PollSpec == Init /\ [][PollNext]_vars

(* C40: every receive call that returns, with messages or without, sets    *)
(* the poll loop's error counter back to zero, so that the counter is the  *)
(* number of receive calls that failed in a row.                           *)
C40_ResetByEverySuccessfulReceive ==
    [][(pc = "poll" /\ pc' = "loop") => consecutive_errors' = 0]_vars

(***************************************************************************)
(* The invisibility window and the extender's sleep in seconds: a large    *)
(* job is under way, time passes in steps, the extender thread extends     *)
(* the window when its interval is over.                                   *)
(***************************************************************************)
(* WorkerConfig.WORKER_VISIBILITY_TIMEOUT, the window a receive sets *)
WORKER_VISIBILITY_TIMEOUT == 900

(* an extender that sleeps as long as the window lasts *)
extension_interval_whole_window == WORKER_VISIBILITY_TIMEOUT

(* VisibilityExtender.extension_interval *)
extension_interval == 600

(* VisibilityExtender.extension_timeout *)
extension_timeout == 900

(* steps of time in one extension interval *)
TicksPerInterval == 12

(* steps by which the start of the thread after the receive, and the       *)
(* thread's sleep of extension_interval times one second plus its call,    *)
(* may be late                                                             *)
MaxLag == 1

(* extensions followed for one job *)
MaxExtensions == 3

(* seconds in one step of time *)
TimeStep == extension_interval \div TicksPerInterval

(* the job's keyword list *)
TimedIds == <<1>>

(* a full_rank job just after _process_message has marked it PROCESSING    *)
(* and started its extender, d steps after the receive                     *)
TimedInit ==
    \E d \in 0 .. MaxLag :
        /\ qstate = [m \in Msgs |-> "inflight"]
        /\ rc = [m \in Msgs |-> 1]
        /\ body = [m \in Msgs |-> RankBody("full_rank", TimedIds)]
        /\ hist = update_message_history(
                      create_or_update([m \in Msgs |-> NoRec], 1, "queued", 0, 1,
                                       MessageTypeEnum("full_rank"), NoCount),
                      1, "processing", "none", "none", 1, 1, "full_rank")
        /\ kw = PassKeywords("full_rank", FALSE)
        /\ serp = [k \in Keywords |-> [i \in 1 .. NumSerp |-> "pending"]]
        /\ running = TRUE
        /\ pc = "router"
        /\ batch = <<>>
        /\ cur = 1
        /\ curRc = 1
        /\ todo = <<>>
        /\ result = NoResult
        /\ ext = IF NeedsExtender(TimedIds, "full_rank") THEN "running" ELSE "none"
        /\ runs = [m \in Msgs |-> 1]
        /\ path = "none"
        /\ last = NoMsg
        /\ epc = IF NeedsExtender(TimedIds, "full_rank") THEN "wait" ELSE "none"
        /\ extFail = 0
        /\ rows = <<>>
        /\ wpc = [w \in Workers |-> "idle"]
        /\ wargs = [w \in Workers |-> NoArgs]
        /\ wpath = [w \in Workers |-> "none"]
        /\ sub = 0
        /\ pre = [kw |-> kw, serp |-> serp]
        /\ cancelAt = 0
        /\ driver = 0
        /\ zombie = {}
        /\ trail = <<>>
        /\ call = NoCall
        /\ consecutive_errors = 0
        /\ timer = [left |-> WORKER_VISIBILITY_TIMEOUT - d * TimeStep, slept |-> 0,
                    extended |-> 0]

(* the seconds left of a window after one step of time *)
LeftAfter(left) == IF left > TimeStep THEN left - TimeStep ELSE 0

(* the thread has slept its interval and is due: at most MaxLag steps late *)
ThreadOverdue ==
    /\ epc = "wait"
    /\ timer.slept >= extension_interval
    /\ timer.slept + TimeStep > extension_interval + MaxLag * TimeStep

(* one step of time while the job is under way: the window runs down, and  *)
(* at zero the queue makes the message visible again; the thread's loop of *)
(* time.sleep(1) goes on                                                   *)
TimePasses ==
    /\ cur # NoMsg
    /\ timer.left > 0
    /\ ~ThreadOverdue
    /\ timer' = [timer EXCEPT !.left = LeftAfter(@),
                              !.slept = IF epc = "wait" THEN @ + TimeStep ELSE @]
    /\ qstate' = IF LeftAfter(timer.left) = 0
                 THEN [qstate EXCEPT ![cur] = "visible"]
                 ELSE qstate
    /\ UNCHANGED <<rc, body, hist, kw, serp, running, pc, batch, cur, curRc, todo,
                   result, ext, runs, path, last, consecutive_errors>>
    /\ UNCHANGED <<extVars, upsertVars, itemVars, passVars, call>>

(* the interval is over with the flag set and change_message_visibility    *)
(* succeeds: the window is extension_timeout from now                      *)
TimedExtend ==
    /\ epc = "wait"
    /\ ext = "running"
    /\ cur # NoMsg
    /\ qstate[cur] = "inflight"
    /\ timer.slept >= extension_interval
    /\ timer.extended < MaxExtensions
    /\ timer' = [left |-> extension_timeout, slept |-> 0, extended |-> timer.extended + 1]
    /\ epc' = AfterExtension(TRUE, ext)
    /\ UNCHANGED <<qstate, rc, body, hist, kw, serp, running, pc, batch, cur, curRc,
                   todo, result, ext, runs, path, last, extFail, consecutive_errors>>
    /\ UNCHANGED <<upsertVars, itemVars, passVars, call>>

TimedNext ==
    \/ TimePasses
    \/ TimedExtend
    \/ RouteRank
    \/ \E raised \in BOOLEAN : RankItem(raised)
    \/ \E out \in StatusConst : RankSub(out)
    \/ JobReturn
    \/ Finish

TimedSpec == TimedInit /\ [][TimedNext]_vars

(* C38: with a window of 900 s set by the receive and by each extension,   *)
(* and an extension after every 600 s of sleep, the message of a job whose *)
(* extender is running stays in flight: its window never runs out while    *)
(* the job is being processed, so the queue delivers it to nobody else.    *)
C38_WindowNeverExpires ==
    (cur # NoMsg /\ ext = "running") => (qstate[cur] = "inflight" /\ timer.left > 0)

(* the job has outlasted the first window: two extensions were made and    *)
(* time has passed since, the message still in flight                      *)
C38_Witness ==
    /\ cur # NoMsg
    /\ ext = "running"
    /\ qstate[cur] = "inflight"
    /\ timer.extended >= 2
    /\ timer.left < extension_timeout

=============================================================================
